---- MODULE Spec2Model ----
(***************************************************************************)
(* Solsoker: the polar-grid weather search of src/src/App.jsx              *)
(* (processLocation and the search button that starts it).                 *)
(*                                                                         *)
(* One behaviour follows one invocation of processLocation from the click  *)
(* on the search button to its return or to the exception that ends it.    *)
(* Every "await" of the handler is a point where the model waits for the   *)
(* environment (a fetch settling, the 50 ms timer firing); the code        *)
(* between two awaits is one action.                                       *)
(*                                                                         *)
(* Numbers.  Weights are kept as integer numerators over WeightDen, the    *)
(* weather values are integers, and a score is kept as the exact fraction  *)
(*   num / (valid * ScoreScale)                                            *)
(* so that comparing two scores of one search is a comparison of integers. *)
(* Floating-point rounding of the JavaScript doubles is not modelled.      *)
(*                                                                         *)
(* Specifications.                                                         *)
(*   Spec, SpecLone  one invocation, every request answered or rejected.   *)
(*   SpecSilent      one invocation in which one request is never          *)
(*                   answered: a plain fetch then never settles, a         *)
(*                   fetchJsonWithTimeout rejects after its timeout.       *)
(*   SpecUI          the search button and the manual-location input side  *)
(*                   by side: several invocations interleave at their      *)
(*                   awaits and write the same component state.            *)
(*   SpecDrag        the triangle control: press, move and release over a  *)
(*                   grid of pointer positions, with the selector and the  *)
(*                   weights as exact numbers (a + b*sqrt(3))/d.           *)
(*   SpecGrid        the search-radius slider and the generation of the    *)
(*                   sample grid for the radius it holds.                  *)
(*   SpecScore       the callback that scores one sample, for a range of   *)
(*                   forecasts and weights, in both display modes.         *)
(*   SpecLive        one invocation while the user drags the weight        *)
(*                   selector, toggles dark mode and moves the radius      *)
(*                   slider.                                               *)
(*   SpecProxy       the /api/geocode and /api/met handlers of server.js,  *)
(*                   in the build that forwards at once and in the build   *)
(*                   that waits a second first, with a clock.              *)
(*   SpecPlace       the place input: typing, the debounced suggestion     *)
(*                   lookup and its cleanup, picking a suggestion, Escape. *)
(***************************************************************************)
EXTENDS Integers, Sequences, FiniteSets, TLC

NULL == "null"

Min(a, b) == IF a <= b THEN a ELSE b

Abs(a) == IF a < 0 THEN 0 - a ELSE a

(***************************************************************************)
(* Program constants                                                       *)
(***************************************************************************)
numRings == 5

pointsPerRing == <<1, 8, 16, 24, 32>>

BATCH_SIZE == 10

TOP_K == 3

WINDOW == 24

CLOUD_FULL == 100

TEMP_OPT == 25

TEMP_RANGE == 20

CALM_MAX == 15

STORM_OPT == 17

WeightDen == 3

(***************************************************************************)
(* Grid generator: the two nested loops that fill `samples`.  A sample is  *)
(* identified by (ring, index); its lat/lon are a function of the pair.    *)
(***************************************************************************)
\* Mutant: the inner loop runs while i <= pointsInRing.
RingSamplesInclusive(ring) ==
    [i \in 1..pointsPerRing[ring + 1] + 1 |-> [ring |-> ring, index |-> i - 1]]

RingSamples(ring) ==
    [i \in 1..pointsPerRing[ring + 1] |-> [ring |-> ring, index |-> i - 1]]

RECURSIVE SamplesFromOuter(_)
\* Mutant: the rings are listed from the outermost inwards.
SamplesFromOuter(ring) ==
    IF ring >= numRings THEN <<>>
    ELSE SamplesFromOuter(ring + 1) \o RingSamples(ring)

RECURSIVE SamplesFrom(_)
SamplesFrom(ring) ==
    IF ring >= numRings THEN <<>>
    ELSE RingSamples(ring) \o SamplesFrom(ring + 1)

samples == SamplesFrom(0)

NumSamples == Len(samples)

\* Mutant: the slice takes one sample too many.
BatchWide(start) == {p \in 1..NumSamples : start < p /\ p <= start + BATCH_SIZE + 1}

\* Positions (1-based) of samples.slice(start, start + BATCH_SIZE), start 0-based.
Batch(start) == {p \in 1..NumSamples : start < p /\ p <= start + BATCH_SIZE}

(***************************************************************************)
(* Scoring: the body of the batch callback after the fetch has resolved.   *)
(* A forecast entry is [details, cloud, temp, wind]; details = FALSE is an *)
(* entry without data.instant.details.                                     *)
(***************************************************************************)
\* Mutant: the whole series is averaged.
forecast24hAll(timeseries) == timeseries

forecast24h(timeseries) == SubSeq(timeseries, 1, Min(Len(timeseries), WINDOW))

RECURSIVE Totals(_)
\* The forEach that accumulates totalSol (x CLOUD_FULL), totalTemp, totalWind
\* and validEntries over the entries that carry instant details.
Totals(entries) ==
    IF entries = <<>>
    THEN [totalSol |-> 0, totalTemp |-> 0, totalWind |-> 0, validEntries |-> 0]
    ELSE LET t == Totals(Tail(entries))
             e == Head(entries)
         IN  IF e.details
             THEN [totalSol     |-> t.totalSol + (CLOUD_FULL - e.cloud),
                   totalTemp    |-> t.totalTemp + e.temp,
                   totalWind    |-> t.totalWind + e.wind,
                   validEntries |-> t.validEntries + 1]
             ELSE t

\* Mutant: the sun score accumulates the cloud fraction itself.
solNumCloud(t) == CLOUD_FULL * t.validEntries - t.totalSol

\* Numerators of the three sub-scores for totals t over v = t.validEntries:
\*   sol       = solNum  / (CLOUD_FULL * v)
\*   tempScore = tempNum / (TEMP_RANGE * v)
\*   windScore = windNum / (K * v),  K = CALM_MAX or STORM_OPT
solNum(t) == t.totalSol

\* Mutant: the deviation is not capped at TEMP_RANGE.
tempNumUncapped(t) ==
    TEMP_RANGE * t.validEntries - Abs(t.totalTemp - TEMP_OPT * t.validEntries)

\* Mutant: the deviation is signed, not absolute.
tempNumSigned(t) ==
    LET v == t.validEntries
    IN  TEMP_RANGE * v - Min(t.totalTemp - TEMP_OPT * v, TEMP_RANGE * v)

tempNum(t) ==
    LET v == t.validEntries
    IN  TEMP_RANGE * v - Min(Abs(t.totalTemp - TEMP_OPT * v), TEMP_RANGE * v)

windDen(dark) == IF dark THEN STORM_OPT ELSE CALM_MAX

\* Mutant: the calm profile is used in both modes.
windNumCalm(t, dark) ==
    CALM_MAX * t.validEntries - Min(t.totalWind, CALM_MAX * t.validEntries)

windNum(t, dark) ==
    LET v == t.validEntries
    IN  IF dark
        THEN STORM_OPT * v - Min(Abs(t.totalWind - STORM_OPT * v), STORM_OPT * v)
        ELSE CALM_MAX * v - Min(t.totalWind, CALM_MAX * v)

\* score = wSol*sol + wTemp*tempScore + wWind*windScore with wX = xWeight/total,
\* as the fraction num / (valid * ScoreScale(total, dark)).
ScoreScale(total, dark) == total * CLOUD_FULL * TEMP_RANGE * windDen(dark)

score(t, w, dark) ==
    [num   |-> w.sol  * solNum(t)        * (TEMP_RANGE * windDen(dark))
             + w.temp * tempNum(t)       * (CLOUD_FULL * windDen(dark))
             + w.wind * windNum(t, dark) * (CLOUD_FULL * TEMP_RANGE),
     valid |-> t.validEntries]

NegInfinity == [num |-> -1, valid |-> 0]

\* a > b on scores of one search (equal ScoreScale); -Infinity is below all.
ScoreGT(a, b) ==
    IF a = NegInfinity THEN FALSE
    ELSE IF b = NegInfinity THEN TRUE
    ELSE a.num * b.valid > b.num * a.valid

(***************************************************************************)
(* The weather provider as the handler sees it through                     *)
(* fetchJsonWithTimeout(`/api/met?...`, undefined, 10000):                 *)
(*   "reject"    the promise rejects: network error, abort after the 10 s  *)
(*               timeout, or a body that is not JSON;                      *)
(*   "errorBody" JSON without .properties (the proxy's {error: ...} body   *)
(*               for an upstream failure): data.properties.timeseries      *)
(*               throws a TypeError;                                       *)
(*   "json"      a forecast with the given timeseries.                     *)
(***************************************************************************)
Entry(c, t, w) == [details |-> TRUE, cloud |-> c, temp |-> t, wind |-> w]

NoDetailsEntry == [details |-> FALSE, cloud |-> 0, temp |-> 0, wind |-> 0]

Reject == [kind |-> "reject", timeseries |-> <<>>]

ErrorBody == [kind |-> "errorBody", timeseries |-> <<>>]

Json(ts) == [kind |-> "json", timeseries |-> ts]

\* cloud 0 %, 25 C, calm: every sub-score is 1.
SeriesClear == Json(<<Entry(0, TEMP_OPT, 0)>>)

\* cloud 100 %, 25 C, calm: sunScore 0, the other sub-scores 1.
SeriesOvercast == Json(<<Entry(CLOUD_FULL, TEMP_OPT, 0)>>)

\* two valid entries around one without details: every sub-score is 1/2.
SeriesMixed ==
    Json(<<Entry(CLOUD_FULL, TEMP_OPT, 0), NoDetailsEntry,
           Entry(0, TEMP_OPT - TEMP_RANGE, CALM_MAX)>>)

\* a forecast none of whose entries has instant details.
SeriesNoDetails == Json(<<NoDetailsEntry>>)

\* Mutant: the spot's score grows with the position of its sample in the grid.
CallbackResultPlaced(p, resp, w, dark) ==
    IF resp.kind # "json"
    THEN [status |-> "rejected", value |-> [p |-> p, score |-> NegInfinity]]
    ELSE LET t == Totals(forecast24h(resp.timeseries))
         IN  IF t.validEntries = 0
             THEN [status |-> "rejected", value |-> [p |-> p, score |-> NegInfinity]]
             ELSE [status |-> "fulfilled",
                   value  |-> [p |-> p,
                               score |-> [num   |-> score(t, w, dark).num + p,
                                          valid |-> t.validEntries]]]

\* What Promise.allSettled records for the callback of sample p whose fetch
\* settled with resp: rejected when the fetch rejects, when reading
\* data.properties.timeseries throws, or when validEntries === 0; otherwise
\* fulfilled with the weather spot {lat, lon, ..., score}.
CallbackResult(p, resp, w, dark) ==
    IF resp.kind # "json"
    THEN [status |-> "rejected", value |-> [p |-> p, score |-> NegInfinity]]
    ELSE LET t == Totals(forecast24h(resp.timeseries))
         IN  IF t.validEntries = 0
             THEN [status |-> "rejected", value |-> [p |-> p, score |-> NegInfinity]]
             ELSE [status |-> "fulfilled",
                   value  |-> [p |-> p, score |-> score(t, w, dark)]]

(***************************************************************************)
(* The fan-in loop over batchResults (in input order, as allSettled        *)
(* returns them): push every fulfilled spot, replace the running best on a *)
(* strictly greater score.                                                 *)
(***************************************************************************)
\* Mutant: the running best is replaced on an equal score too (>=).
BetterOrEqual(spotScore, bestScoreNow) == ~ScoreGT(bestScoreNow, spotScore)

Better(spotScore, bestScoreNow) == ScoreGT(spotScore, bestScoreNow)

RECURSIVE FoldResultsAll(_, _)
\* Mutant: the fan-in loop pushes rejected results as well.
FoldResultsAll(results, acc) ==
    IF results = <<>> THEN acc
    ELSE FoldResultsAll(Tail(results),
                        [acc EXCEPT !.pool = Append(acc.pool, Head(results).value)])

RECURSIVE FoldResults(_, _)
\* results: sequence of allSettled records; acc: [pool, bestPoint, bestScore]
FoldResults(results, acc) ==
    IF results = <<>> THEN acc
    ELSE LET r == Head(results)
             next ==
               IF r.status = "fulfilled"
               THEN [pool      |-> Append(acc.pool, r.value),
                     bestPoint |-> IF Better(r.value.score, acc.bestScore)
                                   THEN r.value ELSE acc.bestPoint,
                     bestScore |-> IF Better(r.value.score, acc.bestScore)
                                   THEN r.value.score ELSE acc.bestScore]
               ELSE acc
         IN  FoldResults(Tail(results), next)

(***************************************************************************)
(* allWeatherSpots.sort((a, b) => b.score - a.score).slice(0, 3)           *)
(* Array.prototype.sort is specified by its result only: a permutation     *)
(* ordered by the comparator, and stable (ECMAScript 2019).  The element   *)
(* at position i moves behind every element with a strictly greater score  *)
(* and behind every earlier element that compares equal.                   *)
(***************************************************************************)
\* Mutant: the comparator is a.score - b.score (ascending).
SortsBeforeAscending(a, b) == ScoreGT(b.score, a.score)

\* b.score - a.score < 0: a sorts before b
SortsBefore(a, b) == ScoreGT(a.score, b.score)

\* Mutant: elements that compare equal come out in reverse order.
SortedPosTiesReversed(spots, i) ==
    Cardinality({j \in 1..Len(spots) :
                   \/ SortsBefore(spots[j], spots[i])
                   \/ j > i /\ ~SortsBefore(spots[i], spots[j])}) + 1

SortedPos(spots, i) ==
    Cardinality({j \in 1..Len(spots) :
                   \/ SortsBefore(spots[j], spots[i])
                   \/ j < i /\ ~SortsBefore(spots[i], spots[j])}) + 1

\* pos is the table of sorted positions, computed once
SortDesc(spots) ==
    CHOOSE sorted \in
        {[k \in 1..Len(spots) |-> spots[CHOOSE i \in 1..Len(spots) : pos[i] = k]] :
           pos \in {[i \in 1..Len(spots) |-> SortedPos(spots, i)]}} : TRUE

Slice(spots) == SubSeq(spots, 1, Min(Len(spots), TOP_K))

(***************************************************************************)
(* The geocoding provider as the handler sees it (reverse lookups):        *)
(*   "named"   a body with address.city/town/village/hamlet or             *)
(*             display_name;                                               *)
(*   "unnamed" a JSON body with neither (e.g. {error: ...});               *)
(*   "reject"  the fetch or res.json() rejects.                            *)
(***************************************************************************)
GeoResponses == {"named", "unnamed", "reject"}

Place == [kind |-> "place", n |-> 0]

Spot(rank) == [kind |-> "spot", n |-> rank]

Coords == [kind |-> "coords", n |-> 0]

Undefined == [kind |-> "undefined", n |-> 0]

Pending == [kind |-> "pending", n |-> 0]

\* rank of the entry at 0-based position index of sortedSpots
RankOf(index) == index + 1

\* name of a top spot: addr.city || ... || geoData.display_name || `Spot n`,
\* and `Spot n` from the catch block
TopSpotName(r, index) == IF r = "named" THEN Place ELSE Spot(index + 1)

\* placeName of the best point: addr2.city || ... || geoData2.display_name,
\* and the toFixed(5) coordinate label from the catch block
BestPlaceName(r) ==
    IF r = "named" THEN Place
    ELSE IF r = "unnamed" THEN Undefined
    ELSE Coords

(***************************************************************************)
(* Inputs                                                                  *)
(***************************************************************************)
Weights(s, t, w) == [sol |-> s, temp |-> t, wind |-> w]

\* useState(1/3) for each weight
InitialWeights == Weights(1, 1, 1)

\* the selector on vertex A: pure sun
SunWeights == Weights(WeightDen, 0, 0)

ZeroWeights == Weights(0, 0, 0)

\* Number of leading samples whose forecast differs from the rest.
FailCount == 5

Cuts == {FailCount} \cup {NumSamples - j : j \in 1..TOP_K}

MainResponses == {Reject, SeriesClear, SeriesOvercast}

AllResponses ==
    {Reject, ErrorBody, SeriesNoDetails, SeriesClear, SeriesOvercast, SeriesMixed}

\* The provider's answers of one search, one per sample position: lone for
\* sample q (q = 0: no such sample), alt for the other samples among the
\* first k, base for the rest.
Provider(k, base, alt, q, lone) ==
    [k |-> k, base |-> base, alt |-> alt, q |-> q, lone |-> lone]

\* the answer to the forecast request for sample p
MetResp(prov, p) ==
    IF p = prov.q THEN prov.lone
    ELSE IF p <= prov.k THEN prov.alt
    ELSE prov.base

MetScenarios ==
    {Provider(0, r, r, 0, r) : r \in AllResponses}
    \cup {Provider(k, x[1], x[2], 0, x[1]) :
            k \in Cuts, x \in {y \in MainResponses \X MainResponses : y[1] # y[2]}}

\* every forecast reports cloud 0 except the one of sample q, which reports 100
LoneScenarios ==
    {Provider(0, SeriesClear, SeriesClear, q, SeriesOvercast) : q \in 1..NumSamples}

FinalResponses == {Reject, ErrorBody, SeriesClear}

(***************************************************************************)
(* The triangle control (weight selector).                                 *)
(*                                                                         *)
(* Its numbers are kept exactly.  The only irrational the code introduces  *)
(* is Math.cos(Math.PI/6) = sqrt(3)/2, so every coordinate, area and       *)
(* weight is a number (a + b*sqrt(3))/d with integers a, b, d, kept as the *)
(* record [a, b, d] in lowest terms with d > 0.  Distances are compared by *)
(* their squares (Math.sqrt is monotone).                                  *)
(***************************************************************************)
RECURSIVE GCD(_, _)
GCD(m, n) ==
    IF n = 0 THEN m
    ELSE CHOOSE g \in {GCD(n, r) : r \in {m % n}} : TRUE

\* (a + b*sqrt(3))/d in lowest terms, d # 0
Num(a, b, d) ==
    CHOOSE x \in
        {[a |-> (s * a) \div g, b |-> (s * b) \div g, d |-> (s * d) \div g] :
            g \in {GCD(GCD(Abs(a), Abs(b)), Abs(d))},
            s \in {IF d < 0 THEN 0 - 1 ELSE 1}} : TRUE

Whole(n) == [a |-> n, b |-> 0, d |-> 1]

Sqrt3 == [a |-> 0, b |-> 1, d |-> 1]

\* Each operation takes the values of its operands once (u, v) and combines
\* their coefficients.
Plus(x, y) ==
    CHOOSE z \in
        {Num(u.a * v.d + v.a * u.d, u.b * v.d + v.b * u.d, u.d * v.d) :
            u \in {x}, v \in {y}} : TRUE

Minus(x, y) ==
    CHOOSE z \in
        {Num(u.a * v.d - v.a * u.d, u.b * v.d - v.b * u.d, u.d * v.d) :
            u \in {x}, v \in {y}} : TRUE

Times(x, y) ==
    CHOOSE z \in
        {Num(u.a * v.a + 3 * u.b * v.b, u.a * v.b + u.b * v.a, u.d * v.d) :
            u \in {x}, v \in {y}} : TRUE

\* n / (g * (c + e*sqrt(3))): n times the conjugate c - e*sqrt(3) over the
\* norm c*c - 3*e*e, over g
OverScaled(n, c, e, g) ==
    Num(n.a * c - 3 * n.b * e, n.b * c - n.a * e, n.d * (c * c - 3 * e * e) * g)

\* x / y for y # 0, the common factor g of y's two coefficients taken out
Over(x, y) ==
    CHOOSE z \in UNION
        {{OverScaled([a |-> u.a * v.d, b |-> u.b * v.d, d |-> u.d],
                     v.a \div g, v.b \div g, g) :
             g \in {GCD(Abs(v.a), Abs(v.b))}} :
                u \in {x}, v \in {y}} : TRUE

RECURSIVE ExceedsRoot(_, _, _)
\* m/n > t for m >= 0, n > 0, where t = sqrt(3) = [1; 1, 2, 1, 2, ...] when
\* k = 0 and the k-th tail of that continued fraction otherwise
ExceedsRoot(m, n, k) ==
    LET c == IF k = 0 \/ k % 2 = 1 THEN 1 ELSE 2
    IN  IF m \div n # c THEN m \div n > c
        ELSE IF m % n = 0 THEN FALSE
        ELSE \E r \in {m % n} : ~ExceedsRoot(n, r, k + 1)

\* the sign of the number with numerator a + b*sqrt(3): -1, 0 or 1
SignOf(a, b) ==
    IF a = 0 /\ b = 0 THEN 0
    ELSE IF a >= 0 /\ b >= 0 THEN 1
    ELSE IF a <= 0 /\ b <= 0 THEN 0 - 1
    ELSE IF a > 0 THEN (IF ExceedsRoot(a, 0 - b, 0) THEN 1 ELSE 0 - 1)
    ELSE (IF ExceedsRoot(0 - a, b, 0) THEN 0 - 1 ELSE 1)

Sign(x) == CHOOSE s \in {SignOf(u.a, u.b) : u \in {x}} : TRUE

Less(x, y) == Sign(Minus(x, y)) < 0

Pt(x, y) == [x |-> x, y |-> y]

TRI_W == 260

TRI_H == 230

centerX == TRI_W \div 2

centerY == TRI_H \div 2 + 20

radius == 110

\* Math.cos(Math.PI/6)
cosPi6 == Over(Sqrt3, Whole(2))

\* Math.sin(Math.PI/6)
sinPi6 == Over(Whole(1), Whole(2))

vA == Pt(Whole(centerX), Whole(centerY - radius))

vB == Pt(Minus(Whole(centerX), Times(Whole(radius), cosPi6)),
         Plus(Whole(centerY), Times(Whole(radius), sinPi6)))

vC == Pt(Plus(Whole(centerX), Times(Whole(radius), cosPi6)),
         Plus(Whole(centerY), Times(Whole(radius), sinPi6)))

\* Mutant: the weights of B and C change places.
weightsToPointSwapped(wA, wB, wC) ==
    Pt(Plus(Plus(Times(wA, vA.x), Times(wC, vB.x)), Times(wB, vC.x)),
       Plus(Plus(Times(wA, vA.y), Times(wC, vB.y)), Times(wB, vC.y)))

weightsToPoint(wA, wB, wC) ==
    Pt(Plus(Plus(Times(wA, vA.x), Times(wB, vB.x)), Times(wC, vC.x)),
       Plus(Plus(Times(wA, vA.y), Times(wB, vB.y)), Times(wC, vC.y)))

\* useState(1/3)
Third == Over(Whole(1), Whole(3))

triArea(p, q, r) ==
    Over(Minus(Times(Minus(q.x, p.x), Minus(r.y, p.y)),
               Times(Minus(q.y, p.y), Minus(r.x, p.x))),
         Whole(2))

areaTotal == triArea(vA, vB, vC)

barycentric(p) ==
    [wA |-> Over(triArea(p, vB, vC), areaTotal),
     wB |-> Over(triArea(vA, p, vC), areaTotal),
     wC |-> Over(triArea(vA, vB, p), areaTotal)]

\* Mutant: the projection on the whole line, not clamped to the segment.
projectToLineFree(point, lineStart, lineEnd) ==
    LET A == Minus(point.x, lineStart.x)
        B == Minus(point.y, lineStart.y)
        C == Minus(lineEnd.x, lineStart.x)
        D == Minus(lineEnd.y, lineStart.y)
        param == Over(Plus(Times(A, C), Times(B, D)),
                      Plus(Times(C, C), Times(D, D)))
    IN  Pt(Plus(lineStart.x, Times(param, C)), Plus(lineStart.y, Times(param, D)))

projectToLine(point, lineStart, lineEnd) ==
    LET A == Minus(point.x, lineStart.x)
        B == Minus(point.y, lineStart.y)
        C == Minus(lineEnd.x, lineStart.x)
        D == Minus(lineEnd.y, lineStart.y)
        dot == Plus(Times(A, C), Times(B, D))
        lenSq == Plus(Times(C, C), Times(D, D))
    IN  \* let param = -1; if (lenSq !== 0) param = dot / lenSq
        LET param == IF lenSq # Whole(0) THEN Over(dot, lenSq) ELSE Whole(0 - 1)
        IN  IF Less(param, Whole(0)) THEN Pt(lineStart.x, lineStart.y)
            ELSE IF Less(Whole(1), param) THEN Pt(lineEnd.x, lineEnd.y)
            ELSE Pt(Plus(lineStart.x, Times(param, C)),
                    Plus(lineStart.y, Times(param, D)))

edges ==
    <<[start |-> vA, end |-> vB], [start |-> vB, end |-> vC],
      [start |-> vA, end |-> vC]>>

\* the square of Math.sqrt((p.x - q.x) ** 2 + (p.y - q.y) ** 2)
distanceSq(p, q) ==
    Plus(Times(Minus(p.x, q.x), Minus(p.x, q.x)),
         Times(Minus(p.y, q.y), Minus(p.y, q.y)))

\* let minDistance = Infinity
Infinity == [a |-> 1, b |-> 0, d |-> 0]

\* Mutant: only the first edge is ever taken.
closerFirst(distance, minDistance) == minDistance = Infinity

\* distance < minDistance
closer(distance, minDistance) ==
    minDistance = Infinity \/ Less(distance, minDistance)

RECURSIVE forEachEdge(_, _, _, _)
\* edges.forEach(edge => ...) from the i-th edge on
forEachEdge(p, i, minDistance, closestPoint) ==
    IF i > Len(edges) THEN closestPoint
    ELSE LET projected == projectToLine(p, edges[i].start, edges[i].end)
             distance == distanceSq(p, projected)
         IN  IF closer(distance, minDistance)
             THEN forEachEdge(p, i + 1, distance, projected)
             ELSE forEachEdge(p, i + 1, minDistance, closestPoint)

\* Mutant: the point is not constrained.
constrainToTriangleNot(p) == p

\* Mutant: every point is projected, the points of the triangle too.
constrainToTriangleAlways(p) == forEachEdge(p, 1, Infinity, p)

constrainToTriangle(p) ==
    LET w == barycentric(p)
    IN  IF Sign(w.wA) >= 0 /\ Sign(w.wB) >= 0 /\ Sign(w.wC) >= 0
        THEN p
        ELSE forEachEdge(p, 1, Infinity, p)

\* Positions of the pointer, in pixels from the top-left corner of the svg
\* (clientX - rect.left, clientY - rect.top): a grid of Reach steps of Step
\* pixels on each side of the centre, and positions Far from it.
Reach == 3

Step == 20

Far == 150

Offsets == {k * Step : k \in (0 - Reach)..Reach} \cup {0 - Far, Far}

Contacts == {<<centerX + dx, centerY + dy>> : dx \in Offsets, dy \in Offsets}

\* the pointer position pt as a point of the svg: { x, y }
PointAt(pt) == Pt(Whole(pt[1]), Whole(pt[2]))

(***************************************************************************)
(* State                                                                   *)
(***************************************************************************)
VARIABLES
    solWeight, tempWeight, windWeight, darkMode,   \* component state read by the search
    loading, error, best, bestLocation,            \* component state written by it
    topWeatherSpots, searchProgress,
    provider,                                      \* the weather provider's answers
    pc,                                            \* position of processLocation
    wLocal,                                        \* totalWLocal and the weights it divides
    closure,                                       \* the darkMode and searchRadius of the render that
                                                   \* created the running processLocation
    maxRadius,                                     \* const maxRadiusKm = searchRadius
    batchStart, outstanding, batchResults,         \* the batch loop
    allWeatherSpots, bestPoint, bestScore,
    sortedSpots, nameOutstanding, topSpotsWithNames,
    placeName,
    metCalls, geoCalls, forecastCalls, setterLog,  \* history: requests issued, setters called
    silent,                                        \* requests the provider never answers
    runs, started, manual,                         \* invocations side by side (SpecUI)
    selectorPos, dragRef,                          \* the triangle control (SpecDrag)
    contact,                                       \* history: the point last handed to handleDrag
    searchRadius, grid,                            \* the radius slider, the grid of one search (SpecGrid)
    data,                                          \* the forecast one scoring callback got (SpecScore)
    now, reqs, sent,                               \* the proxy and its requests (SpecProxy)
    manualLocation, hasSelectedSuggestion,         \* the place input and its suggestions (SpecPlace)
    suggestions, isSearchingPlaces, effects

vars ==
    <<solWeight, tempWeight, windWeight, darkMode, loading, error, best,
      bestLocation, topWeatherSpots, searchProgress, provider, pc, wLocal,
      closure, maxRadius,
      batchStart, outstanding, batchResults, allWeatherSpots, bestPoint,
      bestScore, sortedSpots, nameOutstanding, topSpotsWithNames, placeName,
      metCalls, geoCalls, forecastCalls, setterLog, silent, runs, started,
      manual, selectorPos, dragRef, contact, searchRadius, grid, data,
      now, reqs, sent, manualLocation, hasSelectedSuggestion,
      suggestions, isSearchingPlaces, effects>>

\* the state of the grid and scoring specifications
calcVars == <<searchRadius, grid, data>>

proxyVars == <<now, reqs, sent>>

placeVars ==
    <<manualLocation, hasSelectedSuggestion, suggestions, isSearchingPlaces,
      effects>>

\* the proxy and the place input, which no handler of the search, the
\* triangle control, the slider or the dark mode button touches
apartVars == <<proxyVars, placeVars>>

\* the state one invocation followed request by request does not touch
otherVars == <<runs, started, manual, selectorPos, dragRef, contact, calcVars, apartVars>>

weightVars == <<solWeight, tempWeight, windWeight>>

displayVars ==
    <<loading, error, best, bestLocation, topWeatherSpots, searchProgress>>

sessionVars == <<runs, started, manual>>

\* the locals and the history of the invocation followed request by request
localVars ==
    <<provider, pc, wLocal, closure, maxRadius, batchStart, outstanding,
      batchResults,
      allWeatherSpots, bestPoint, bestScore, sortedSpots, nameOutstanding,
      topSpotsWithNames, placeName, metCalls, geoCalls, forecastCalls,
      setterLog, silent>>

NoPoint == [p |-> 0, score |-> NegInfinity]

NoBest == [p |-> 0, score |-> NegInfinity, name |-> Pending, forecast |-> <<>>]

NoLocation == [p |-> 0, name |-> Pending]

InvalidMsg == "Vennligst sett minst en vekt > 0"

EmptyResults == [p \in {} |-> NoPoint]

(***************************************************************************)
(* Requests.  A request is named by its kind and, for the forecast of a    *)
(* sample and the name lookup of a top spot, its position.  The provider   *)
(* behind a request in silent never answers it.                            *)
(***************************************************************************)
Req(kind, n) == [kind |-> kind, n |-> n]

GeoUserReq == Req("geoUser", 0)

MetReq(p) == Req("met", p)

NameReq(i) == Req("name", i)

BestNameReq == Req("bestName", 0)

ForecastReq == Req("forecast", 0)

\* await fetch(url) has no timer: it settles only if the provider answers
fetch(req) == req \notin silent

\* await fetchJsonWithTimeout(url, undefined, ms): the provider's answer, or,
\* when none comes, the rejection of the abort the timer triggers
fetchJsonWithTimeout(req, answer, aborted) ==
    IF req \in silent THEN aborted ELSE answer

\* the request has been issued and its promise has not settled
InFlight(req) ==
    \/ req.kind = "geoUser" /\ pc = "geoUser"
    \/ req.kind = "met" /\ pc = "batch" /\ req.n \in outstanding
    \/ req.kind = "name" /\ pc = "naming" /\ req.n \in nameOutstanding
    \/ req.kind = "bestName" /\ pc = "bestName"
    \/ req.kind = "forecast" /\ pc = "forecast"

\* Number of searches one behaviour of SpecUI starts.
MaxSearches == 2

\* The locals of one invocation of processLocation as SpecUI follows them:
\* its position, the start of its current batch, and whether the provider
\* lets any of its scoring fetches succeed.
Run(at, start, found) == [pc |-> at, batchStart |-> start, found |-> found]

\* the component as mounted: no search started, no place lookup pending, the
\* selector on the point of the initial weights, no drag
\* no press or move has been handled yet
NoContact == <<>>

\* useState(10) and the range input: min="5" max="100" step="5"
sliderDefault == 10

sliderMin == 5

sliderMax == 100

sliderStep == 5

\* no scoring callback has received a forecast yet
NoData == [kind |-> "none", timeseries |-> <<>>]

\* Number of client requests one behaviour of SpecProxy shows.
MaxRequests == 2

\* a request slot no client request has arrived for yet
NoRequest ==
    [build |-> NULL, route |-> NULL, query |-> NULL, pc |-> "free", wakeAt |-> 0,
     outcome |-> NULL, responses |-> <<>>]

\* !manualLocation.trim()
Blank(text) == text = ""

\* the text of the place input once a place has been typed in full
TypedPlace == "Oslo"

\* the proxy as started (no request yet); the suggestions of the place input
\* as mounted: no list, no lookup, no timer
InitApart ==
    /\ now = 0
    /\ reqs = [id \in 1..MaxRequests |-> NoRequest]
    /\ sent = <<>>
    /\ hasSelectedSuggestion = FALSE
    /\ suggestions = <<>>
    /\ isSearchingPlaces = FALSE
    /\ effects = <<>>

InitControls ==
    /\ runs = [s \in 1..MaxSearches |-> Run("idle", 0, FALSE)]
    /\ started = 0
    /\ manual = "idle"
    /\ selectorPos = weightsToPoint(Third, Third, Third)
    /\ dragRef = FALSE
    /\ contact = NoContact
    /\ searchRadius = sliderDefault
    /\ grid = <<>>
    /\ data = NoData

\* the component as mounted: the place input is empty
InitOther ==
    /\ InitApart
    /\ manualLocation = ""
    /\ InitControls

\* what the component displays, as mounted
InitDisplay ==
    /\ darkMode = FALSE
    /\ loading = FALSE
    /\ error = NULL
    /\ best = NoBest
    /\ bestLocation = NoLocation
    /\ topWeatherSpots = <<>>

\* no invocation of processLocation yet
InitLocals ==
    /\ pc = "idle"
    /\ wLocal = ZeroWeights
    /\ closure = [darkMode |-> FALSE, searchRadius |-> sliderDefault]
    /\ maxRadius = 0
    /\ batchStart = 0
    /\ outstanding = {}
    /\ batchResults = EmptyResults
    /\ allWeatherSpots = <<>>
    /\ bestPoint = NoPoint
    /\ bestScore = NegInfinity
    /\ sortedSpots = <<>>
    /\ nameOutstanding = {}
    /\ topSpotsWithNames = <<>>
    /\ placeName = Pending
    /\ metCalls = [p \in 1..NumSamples |-> 0]
    /\ geoCalls = 0
    /\ forecastCalls = <<>>
    /\ setterLog = {}
    /\ silent = {}

InitCommon ==
    /\ InitDisplay
    /\ searchProgress = <<>>
    /\ InitLocals
    /\ InitOther

\* The weights are the component state processLocation reads when it starts:
\* the initial (1/3, 1/3, 1/3), or the zero triple its validation rejects
\* (the triangle control itself only produces weights that sum to 1).
Init ==
    /\ InitCommon
    /\ \E w \in {InitialWeights, ZeroWeights} :
         /\ solWeight = w.sol
         /\ tempWeight = w.temp
         /\ windWeight = w.wind
    /\ provider \in MetScenarios

(***************************************************************************)
(* processLocation, one action per stretch of code between two awaits      *)
(***************************************************************************)
\* Mutant: the weight validation never rejects.
WeightsInvalidNever(total) == FALSE

\* if (totalWLocal === 0)
WeightsInvalid(total) == total = 0

\* Mutant: the handler goes on as soon as one callback has settled (Promise.race).
anySettled == outstanding # Batch(batchStart)

\* Promise.allSettled(batch.map(...)) resolves: no callback is still pending
allSettled == outstanding = {}

\* Mutant: the next batch starts on the last sample of the previous one.
NextBatchStartOverlap(start) == start + BATCH_SIZE - 1

\* the 0-based start of the batch after the one at start: batchStart += BATCH_SIZE
NextBatchStart(start) == start + BATCH_SIZE

RECURSIVE Ascending(_)
\* the positions of a set in grid (array) order
Ascending(S) ==
    IF S = {} THEN <<>>
    ELSE LET m == CHOOSE x \in S : \A y \in S : x <= y
         IN  <<m>> \o Ascending(S \ {m})

\* batchResults in input order, as Promise.allSettled returns them
ResultsInOrder ==
    LET ps == Ascending(DOMAIN batchResults)
    IN  [i \in 1..Len(ps) |-> batchResults[ps[i]]]

\* batch.map(async p => ...) up to each callback's await: every callback appends
\* its grey dot to searchProgress and issues its fetch; then the handler awaits
\* allSettled.
IssueBatch(start, progress) ==
    /\ batchStart' = start
    /\ outstanding' = outstanding \cup Batch(start)
    /\ batchResults' = EmptyResults
    /\ metCalls' = [p \in 1..NumSamples |->
                      IF p \in Batch(start) THEN metCalls[p] + 1 ELSE metCalls[p]]
    /\ searchProgress' = progress \o Ascending(Batch(start))
    /\ pc' = "batch"

\* The search button's onClick followed by processLocation up to its first
\* await: the weight validation, then the reverse lookup of the centre.
ClickSearch ==
    /\ pc = "idle"
    /\ ~loading
    /\ best' = NoBest
    /\ bestLocation' = NoLocation
    /\ LET total == solWeight + tempWeight + windWeight
       IN  IF WeightsInvalid(total)
           THEN /\ error' = InvalidMsg
                /\ loading' = FALSE
                /\ setterLog' = setterLog \cup {"setError", "setLoading"}
                /\ pc' = "returned"
                /\ UNCHANGED <<wLocal, closure, geoCalls>>
           ELSE /\ error' = NULL
                /\ loading' = TRUE
                /\ wLocal' = Weights(solWeight, tempWeight, windWeight)
                /\ closure' = [darkMode |-> darkMode, searchRadius |-> searchRadius]
                /\ geoCalls' = geoCalls + 1
                /\ pc' = "geoUser"
                /\ UNCHANGED setterLog
    /\ UNCHANGED <<solWeight, tempWeight, windWeight, darkMode, topWeatherSpots,
                   searchProgress, provider, batchStart, outstanding, batchResults,
                   allWeatherSpots, bestPoint, bestScore, sortedSpots,
                   nameOutstanding, topSpotsWithNames, placeName, metCalls,
                   forecastCalls, maxRadius>>
    /\ UNCHANGED <<silent, otherVars>>

\* The centre's reverse lookup settles.  Both the try and the catch branch
\* call setUserLocation with the name the button passed in; then the locals
\* are initialised, the progress dots cleared, the grid generated and the
\* first batch issued.
GeoUserSettle ==
    /\ pc = "geoUser"
    /\ fetch(GeoUserReq)
    /\ \E r \in GeoResponses :
         setterLog' = setterLog \cup {"setUserLocation", "setSearchProgress"}
    /\ bestPoint' = NoPoint
    /\ bestScore' = NegInfinity
    /\ maxRadius' = closure.searchRadius
    /\ allWeatherSpots' = <<>>
    /\ IssueBatch(0, <<>>)
    /\ UNCHANGED <<solWeight, tempWeight, windWeight, darkMode, loading, error,
                   best, bestLocation, topWeatherSpots, provider, wLocal, closure,
                   sortedSpots, nameOutstanding, topSpotsWithNames, placeName,
                   geoCalls, forecastCalls>>
    /\ UNCHANGED <<silent, otherVars>>

\* Mutant: the callback reads the darkMode of the latest render.
darkModeOfLatestRender == darkMode

\* darkMode as the callback reads it: the constant of the render whose
\* processLocation is running
darkModeOfClosure == closure.darkMode

\* One forecast fetch of the current batch settles and its callback runs to
\* its end (return or throw); it writes nothing but its own promise.
Settle(p) ==
    /\ pc = "batch"
    /\ p \in outstanding
    /\ outstanding' = outstanding \ {p}
    /\ batchResults' =
         [q \in DOMAIN batchResults \cup {p} |->
            IF q = p
            THEN CallbackResult(
                     p, fetchJsonWithTimeout(MetReq(p), MetResp(provider, p), Reject),
                     wLocal, darkModeOfClosure)
            ELSE batchResults[q]]
    /\ UNCHANGED <<solWeight, tempWeight, windWeight, darkMode, loading, error,
                   best, bestLocation, topWeatherSpots, searchProgress, provider,
                   pc, wLocal, closure, maxRadius, batchStart, allWeatherSpots, bestPoint, bestScore,
                   sortedSpots, nameOutstanding, topSpotsWithNames, placeName,
                   metCalls, geoCalls, forecastCalls, setterLog>>
    /\ UNCHANGED <<silent, otherVars>>

\* allSettled has resolved: the forEach over batchResults, then sleep(50).
FanIn ==
    /\ pc = "batch"
    /\ allSettled
    /\ LET acc == FoldResults(ResultsInOrder,
                              [pool |-> allWeatherSpots, bestPoint |-> bestPoint,
                               bestScore |-> bestScore])
       IN  /\ allWeatherSpots' = acc.pool
           /\ bestPoint' = acc.bestPoint
           /\ bestScore' = acc.bestScore
    /\ pc' = "sleep"
    /\ UNCHANGED <<solWeight, tempWeight, windWeight, darkMode, loading, error,
                   best, bestLocation, topWeatherSpots, searchProgress, provider,
                   wLocal, closure, maxRadius, batchStart, outstanding, batchResults, sortedSpots,
                   nameOutstanding, topSpotsWithNames, placeName, metCalls,
                   geoCalls, forecastCalls, setterLog>>
    /\ UNCHANGED <<silent, otherVars>>

\* After the name lookups of the top spots: setTopWeatherSpots, the progress
\* dots are cleared, and the best point's name is looked up.  With bestPoint
\* still null the URL template throws a TypeError inside the try, the catch
\* block throws it again on bestPoint.lat.toFixed, and processLocation ends
\* with that exception: no request is made and no further setter is called.
AfterNames(top) ==
    /\ topWeatherSpots' = top
    /\ searchProgress' = <<>>
    /\ setterLog' = setterLog \cup {"setTopWeatherSpots", "setSearchProgress"}
    /\ IF bestPoint = NoPoint
       THEN /\ pc' = "threw"
            /\ geoCalls' = geoCalls
       ELSE /\ pc' = "bestName"
            /\ geoCalls' = geoCalls + 1

\* The 50 ms timer fires: the next batch is issued, or, after the last batch,
\* the pool is sorted in place, its first three spots are taken and their
\* name lookups are issued together (plain fetch, inside Promise.all).
Wake ==
    /\ pc = "sleep"
    /\ IF NextBatchStart(batchStart) < NumSamples
       THEN /\ IssueBatch(NextBatchStart(batchStart), searchProgress)
            /\ UNCHANGED <<allWeatherSpots, sortedSpots, nameOutstanding,
                           topSpotsWithNames, topWeatherSpots, geoCalls,
                           setterLog>>
       ELSE \E sorted \in {SortDesc(allWeatherSpots)} : \E top \in {Slice(sorted)} :
                /\ allWeatherSpots' = sorted
                /\ sortedSpots' = top
                /\ topSpotsWithNames' =
                     [i \in 1..Len(top) |->
                        [p |-> top[i].p, score |-> top[i].score,
                         name |-> Pending, rank |-> RankOf(i - 1)]]
                /\ IF top = <<>>
                   THEN /\ nameOutstanding' = {}
                        /\ AfterNames(<<>>)
                   ELSE /\ nameOutstanding' = 1..Len(top)
                        /\ geoCalls' = geoCalls + Len(top)
                        /\ pc' = "naming"
                        /\ UNCHANGED <<topWeatherSpots, searchProgress, setterLog>>
                /\ UNCHANGED <<batchStart, outstanding, batchResults, metCalls>>
    /\ UNCHANGED <<solWeight, tempWeight, windWeight, darkMode, loading, error,
                   best, bestLocation, provider, wLocal, closure, maxRadius, bestPoint, bestScore,
                   placeName, forecastCalls>>
    /\ UNCHANGED <<silent, otherVars>>

\* The name lookup of the top spot at 1-based position i settles with r.
NameSettle(i, r) ==
    /\ pc = "naming"
    /\ i \in nameOutstanding
    /\ fetch(NameReq(i))
    /\ nameOutstanding' = nameOutstanding \ {i}
    /\ topSpotsWithNames' =
         [topSpotsWithNames EXCEPT ![i].name = TopSpotName(r, i - 1)]
    /\ UNCHANGED <<solWeight, tempWeight, windWeight, darkMode, loading, error,
                   best, bestLocation, topWeatherSpots, searchProgress, provider,
                   pc, wLocal, closure, maxRadius, batchStart, outstanding, batchResults,
                   allWeatherSpots, bestPoint, bestScore, sortedSpots, placeName,
                   metCalls, geoCalls, forecastCalls, setterLog>>
    /\ UNCHANGED <<silent, otherVars>>

\* Promise.all over the name lookups resolves.
NamesDone ==
    /\ pc = "naming"
    /\ nameOutstanding = {}
    /\ AfterNames(topSpotsWithNames)
    /\ UNCHANGED <<solWeight, tempWeight, windWeight, darkMode, loading, error,
                   best, bestLocation, provider, wLocal, closure, maxRadius, batchStart, outstanding,
                   batchResults, allWeatherSpots, bestPoint, bestScore,
                   sortedSpots, nameOutstanding, topSpotsWithNames, placeName,
                   metCalls, forecastCalls>>
    /\ UNCHANGED <<silent, otherVars>>

\* Mutant: the full forecast is requested for every top spot.
ForecastTargetsTop == [i \in 1..Len(topWeatherSpots) |-> topWeatherSpots[i].p]

\* the samples whose full forecast is requested after the ranking: bestPoint
ForecastTargets == <<bestPoint.p>>

\* The best point's name lookup settles with r (the timer's abort if the
\* provider is silent); the full forecast of the best point is requested.
BestNameSettle(r) ==
    /\ pc = "bestName"
    /\ placeName' = BestPlaceName(fetchJsonWithTimeout(BestNameReq, r, "reject"))
    /\ forecastCalls' = forecastCalls \o ForecastTargets
    /\ pc' = "forecast"
    /\ UNCHANGED <<solWeight, tempWeight, windWeight, darkMode, loading, error,
                   best, bestLocation, topWeatherSpots, searchProgress, provider,
                   wLocal, closure, maxRadius, batchStart, outstanding, batchResults,
                   allWeatherSpots, bestPoint, bestScore, sortedSpots,
                   nameOutstanding, topSpotsWithNames, metCalls, geoCalls,
                   setterLog>>
    /\ UNCHANGED <<silent, otherVars>>

\* The full-forecast fetch settles with resp (the timer's abort if the
\* provider is silent).  It is not inside a try: a
\* rejection, or a body without .properties, ends processLocation with an
\* exception before setBest, setBestLocation and setLoading(false).
ForecastSettle(resp) ==
    /\ pc = "forecast"
    /\ LET fData == fetchJsonWithTimeout(ForecastReq, resp, Reject)
       IN
       IF fData.kind = "json"
       THEN /\ best' = [p |-> bestPoint.p, score |-> bestPoint.score,
                        name |-> placeName, forecast |-> fData.timeseries]
            /\ bestLocation' = [p |-> bestPoint.p, name |-> placeName]
            /\ loading' = FALSE
            /\ setterLog' = setterLog \cup {"setBest", "setBestLocation", "setLoading"}
            /\ pc' = "returned"
       ELSE /\ pc' = "threw"
            /\ UNCHANGED <<best, bestLocation, loading, setterLog>>
    /\ UNCHANGED <<solWeight, tempWeight, windWeight, darkMode, error,
                   topWeatherSpots, searchProgress, provider, wLocal, closure, maxRadius, batchStart,
                   outstanding, batchResults, allWeatherSpots, bestPoint,
                   bestScore, sortedSpots, nameOutstanding, topSpotsWithNames,
                   placeName, metCalls, geoCalls, forecastCalls>>
    /\ UNCHANGED <<silent, otherVars>>

Next ==
    \/ ClickSearch
    \/ GeoUserSettle
    \/ \E p \in outstanding : Settle(p)
    \/ FanIn
    \/ Wake
    \/ \E i \in 1..TOP_K, r \in GeoResponses : NameSettle(i, r)
    \/ NamesDone
    \/ \E r \in GeoResponses : BestNameSettle(r)
    \/ \E resp \in FinalResponses : ForecastSettle(resp)

Spec == Init /\ [][Next]_vars

(***************************************************************************)
(* A provider that never answers one request of the search.                *)
(***************************************************************************)
\* Forecast requests that may stay unanswered: the first sample of the first
\* and of the second batch.
SilentSamples == {1, BATCH_SIZE + 1}

SilentCandidates ==
    {GeoUserReq, BestNameReq, ForecastReq}
    \cup {NameReq(i) : i \in 1..TOP_K}
    \cup {MetReq(p) : p \in SilentSamples}

\* The provider will never answer the in-flight request req (at most one
\* request of a search is left unanswered).
NeverAnswers(req) ==
    /\ silent = {}
    /\ InFlight(req)
    /\ silent' = {req}
    /\ UNCHANGED <<solWeight, tempWeight, windWeight, darkMode, loading, error,
                   best, bestLocation, topWeatherSpots, searchProgress, provider,
                   pc, wLocal, closure, maxRadius, batchStart, outstanding, batchResults,
                   allWeatherSpots, bestPoint, bestScore, sortedSpots,
                   nameOutstanding, topSpotsWithNames, placeName, metCalls,
                   geoCalls, forecastCalls, setterLog, otherVars>>

InitSilent ==
    /\ InitCommon
    /\ solWeight = InitialWeights.sol
    /\ tempWeight = InitialWeights.temp
    /\ windWeight = InitialWeights.wind
    /\ provider = Provider(0, SeriesClear, SeriesClear, 0, SeriesClear)

NextSilent ==
    \/ Next
    \/ \E req \in SilentCandidates : NeverAnswers(req)

SpecSilent == InitSilent /\ [][NextSilent]_vars

\* The search of end-to-end scenario 1: pure-sun weights, one overcast sample.
InitLone ==
    /\ InitCommon
    /\ solWeight = SunWeights.sol
    /\ tempWeight = SunWeights.temp
    /\ windWeight = SunWeights.wind
    /\ provider \in LoneScenarios

SpecLone == InitLone /\ [][Next]_vars

(***************************************************************************)
(* Several searches in one session (SpecUI).                               *)
(*                                                                         *)
(* The search button is disabled while loading is set.  The Enter key of   *)
(* the place input runs handleManualLocation, which clears loading when    *)
(* its lookup settles, whether or not a search is running, and nothing in  *)
(* processLocation ends an invocation when another one starts.  SpecUI     *)
(* follows up to MaxSearches invocations side by side, each at the grain   *)
(* of its writes to the component state: the callbacks of a batch are      *)
(* taken together with the fan-in that follows them, and of the providers' *)
(* answers only what decides the path of the invocation is kept (whether   *)
(* any scoring fetch succeeds, whether the final fetch does).  What an     *)
(* invocation writes carries its number; searchProgress is the set of the  *)
(* dots on the map.                                                        *)
(***************************************************************************)
\* the best candidate, and its map marker, as invocation s writes them
ResultOf(s) == [search |-> s]

\* the top spots invocation s writes: none when no scoring fetch succeeded
TopOf(s, found) == IF found THEN <<[search |-> s, rank |-> 1]>> ELSE <<>>

\* the grey dots of the batch of invocation s that starts at start
Dots(s, start) == {[search |-> s, p |-> p] : p \in Batch(start)}

ManualMsg == "Feil ved oppslag av sted"

ManualResponses == {"found", "empty", "reject"}

InitUI ==
    /\ InitDisplay
    /\ searchProgress = {}
    /\ InitLocals
    /\ InitApart
    /\ manualLocation = TypedPlace
    /\ InitControls
    /\ solWeight = InitialWeights.sol
    /\ tempWeight = InitialWeights.temp
    /\ windWeight = InitialWeights.wind
    /\ provider = Provider(0, SeriesClear, SeriesClear, 0, SeriesClear)

\* The click on the search button starts invocation s, which runs to its
\* first await (the weights of the triangle control never sum to zero).
Click(s, found) ==
    /\ s = started + 1
    /\ s <= MaxSearches
    /\ ~loading
    /\ ~WeightsInvalid(solWeight + tempWeight + windWeight)
    /\ started' = s
    /\ loading' = TRUE
    /\ error' = NULL
    /\ best' = NoBest
    /\ bestLocation' = NoLocation
    /\ runs' = [runs EXCEPT ![s] = Run("geoUser", 0, found)]
    /\ UNCHANGED <<weightVars, darkMode, topWeatherSpots, searchProgress,
                   localVars, manual, selectorPos, dragRef, contact, calcVars, apartVars>>

\* The centre's lookup of invocation s settles: setSearchProgress([]), then
\* the dots of the first batch.
RunGeoUserSettle(s) ==
    /\ runs[s].pc = "geoUser"
    /\ searchProgress' = Dots(s, 0)
    /\ runs' = [runs EXCEPT ![s].pc = "batch", ![s].batchStart = 0]
    /\ UNCHANGED <<weightVars, darkMode, loading, error, best, bestLocation,
                   topWeatherSpots, localVars, started, manual, selectorPos,
                   dragRef, contact, calcVars, apartVars>>

\* All fetches of the current batch of invocation s have settled: the fan-in
\* into its locals, then sleep(50).
RunFanIn(s) ==
    /\ runs[s].pc = "batch"
    /\ runs' = [runs EXCEPT ![s].pc = "sleep"]
    /\ UNCHANGED <<weightVars, darkMode, loading, error, best, bestLocation,
                   topWeatherSpots, searchProgress, localVars, started, manual,
                   selectorPos, dragRef, contact, calcVars, apartVars>>

\* The timer of invocation s fires: the dots of its next batch, or, after the
\* last batch, the name lookups of its top spots; with an empty pool
\* setTopWeatherSpots([]), setSearchProgress([]) and the TypeError on the
\* null bestPoint.
RunWake(s) ==
    /\ runs[s].pc = "sleep"
    /\ IF NextBatchStart(runs[s].batchStart) < NumSamples
       THEN /\ searchProgress' =
                 searchProgress \cup Dots(s, NextBatchStart(runs[s].batchStart))
            /\ runs' = [runs EXCEPT
                          ![s].pc = "batch",
                          ![s].batchStart = NextBatchStart(runs[s].batchStart)]
            /\ UNCHANGED topWeatherSpots
       ELSE IF runs[s].found
       THEN /\ runs' = [runs EXCEPT ![s].pc = "naming"]
            /\ UNCHANGED <<topWeatherSpots, searchProgress>>
       ELSE /\ topWeatherSpots' = TopOf(s, FALSE)
            /\ searchProgress' = {}
            /\ runs' = [runs EXCEPT ![s].pc = "threw"]
    /\ UNCHANGED <<weightVars, darkMode, loading, error, best, bestLocation,
                   localVars, started, manual, selectorPos, dragRef, contact, calcVars, apartVars>>

\* The name lookups of invocation s have settled: setTopWeatherSpots,
\* setSearchProgress([]), and the best point's name is looked up.
RunNamesDone(s) ==
    /\ runs[s].pc = "naming"
    /\ topWeatherSpots' = TopOf(s, TRUE)
    /\ searchProgress' = {}
    /\ runs' = [runs EXCEPT ![s].pc = "bestName"]
    /\ UNCHANGED <<weightVars, darkMode, loading, error, best, bestLocation,
                   localVars, started, manual, selectorPos, dragRef, contact, calcVars, apartVars>>

\* The best point's name lookup of invocation s settles; its full forecast
\* is requested.
RunBestNameSettle(s) ==
    /\ runs[s].pc = "bestName"
    /\ runs' = [runs EXCEPT ![s].pc = "forecast"]
    /\ UNCHANGED <<weightVars, darkMode, loading, error, best, bestLocation,
                   topWeatherSpots, searchProgress, localVars, started, manual,
                   selectorPos, dragRef, contact, calcVars, apartVars>>

\* The full-forecast fetch of invocation s settles: setBest, setBestLocation
\* and setLoading(false), or the exception that ends the invocation.
RunForecastSettle(s, ok) ==
    /\ runs[s].pc = "forecast"
    /\ IF ok
       THEN /\ best' = ResultOf(s)
            /\ bestLocation' = ResultOf(s)
            /\ loading' = FALSE
            /\ runs' = [runs EXCEPT ![s].pc = "returned"]
       ELSE /\ runs' = [runs EXCEPT ![s].pc = "threw"]
            /\ UNCHANGED <<best, bestLocation, loading>>
    /\ UNCHANGED <<weightVars, darkMode, error, topWeatherSpots, searchProgress,
                   localVars, started, manual, selectorPos, dragRef, contact, calcVars, apartVars>>

\* Enter in the place input: handleManualLocation up to its await.
PressEnter ==
    /\ ~Blank(manualLocation)
    /\ manual = "idle"
    /\ manual' = "geocoding"
    /\ loading' = TRUE
    /\ error' = NULL
    /\ best' = NoBest
    /\ UNCHANGED <<weightVars, darkMode, bestLocation, topWeatherSpots,
                   searchProgress, localVars, runs, started, selectorPos,
                   dragRef, contact, calcVars, apartVars>>

\* The forward lookup of handleManualLocation settles with r: every branch
\* ends with setLoading(false).
ManualSettle(r) ==
    /\ manual = "geocoding"
    /\ manual' = "idle"
    /\ loading' = FALSE
    /\ error' = IF r = "reject" THEN ManualMsg ELSE error
    /\ UNCHANGED <<weightVars, darkMode, best, bestLocation, topWeatherSpots,
                   searchProgress, localVars, runs, started, selectorPos,
                   dragRef, contact, calcVars, apartVars>>

NextUI ==
    \/ \E s \in 1..MaxSearches, found \in BOOLEAN : Click(s, found)
    \/ \E s \in 1..MaxSearches : RunGeoUserSettle(s)
    \/ \E s \in 1..MaxSearches : RunFanIn(s)
    \/ \E s \in 1..MaxSearches : RunWake(s)
    \/ \E s \in 1..MaxSearches : RunNamesDone(s)
    \/ \E s \in 1..MaxSearches : RunBestNameSettle(s)
    \/ \E s \in 1..MaxSearches, ok \in BOOLEAN : RunForecastSettle(s, ok)
    \/ PressEnter
    \/ \E r \in ManualResponses : ManualSettle(r)

SpecUI == InitUI /\ [][NextUI]_vars

(***************************************************************************)
(* The handlers of the triangle control (SpecDrag).  A position pt is the  *)
(* pointer's place relative to the svg; svgRef.current is the svg the      *)
(* handlers are bound to, so getBoundingClientRect() always has a value.   *)
(* The weights are exact numbers here, (1/3, 1/3, 1/3) when mounted.       *)
(* Every handler is offered every position of Contacts: the svg draws      *)
(* outside its box (overflow: visible) and a touch keeps reporting to the  *)
(* svg after the finger has left it.  contact records the position of the  *)
(* latest call of handleDrag.                                              *)
(***************************************************************************)
InitDrag ==
    /\ InitDisplay
    /\ searchProgress = <<>>
    /\ InitLocals
    /\ InitOther
    /\ solWeight = Third
    /\ tempWeight = Third
    /\ windWeight = Third
    /\ provider = Provider(0, SeriesClear, SeriesClear, 0, SeriesClear)

\* setSelectorPos(constrainedPoint), then the weights of constrainedPoint
\* divided by their total if (total > 0)
handleDrag(pt) ==
    /\ contact' = pt
    /\ \E constrainedPoint \in {constrainToTriangle(PointAt(pt))} :
         \E w \in {barycentric(constrainedPoint)} :
           \E total \in {Plus(Plus(w.wA, w.wB), w.wC)} :
             /\ selectorPos' = constrainedPoint
             /\ IF Sign(total) > 0
                THEN /\ solWeight' = Over(w.wA, total)
                     /\ tempWeight' = Over(w.wB, total)
                     /\ windWeight' = Over(w.wC, total)
                ELSE UNCHANGED weightVars

\* Mutant: the press only arms the drag; the first move applies a position.
onMouseDownArm(pt) ==
    /\ dragRef' = TRUE
    /\ contact' = pt
    /\ UNCHANGED <<selectorPos, weightVars>>
    /\ UNCHANGED <<darkMode, displayVars, localVars, sessionVars, calcVars, apartVars>>

onMouseDown(pt) ==
    /\ dragRef' = TRUE
    /\ handleDrag(pt)
    /\ UNCHANGED <<darkMode, displayVars, localVars, sessionVars, calcVars, apartVars>>

\* Mutant: a move is applied whether or not a drag is active.
onMouseMoveAlways(pt) ==
    /\ handleDrag(pt)
    /\ UNCHANGED dragRef
    /\ UNCHANGED <<darkMode, displayVars, localVars, sessionVars, calcVars, apartVars>>

\* if (!dragRef.current) return
onMouseMove(pt) ==
    /\ IF ~dragRef
       THEN UNCHANGED <<selectorPos, weightVars, contact>>
       ELSE handleDrag(pt)
    /\ UNCHANGED dragRef
    /\ UNCHANGED <<darkMode, displayVars, localVars, sessionVars, calcVars, apartVars>>

\* bound to onMouseUp and to onMouseLeave of the svg
onMouseUp ==
    /\ dragRef' = FALSE
    /\ UNCHANGED <<selectorPos, weightVars, contact>>
    /\ UNCHANGED <<darkMode, displayVars, localVars, sessionVars, calcVars, apartVars>>

\* pt is the position of e.touches[0]
onTouchStart(pt) ==
    /\ dragRef' = TRUE
    /\ handleDrag(pt)
    /\ UNCHANGED <<darkMode, displayVars, localVars, sessionVars, calcVars, apartVars>>

onTouchMove(pt) ==
    /\ IF ~dragRef
       THEN UNCHANGED <<selectorPos, weightVars, contact>>
       ELSE handleDrag(pt)
    /\ UNCHANGED dragRef
    /\ UNCHANGED <<darkMode, displayVars, localVars, sessionVars, calcVars, apartVars>>

onTouchEnd ==
    /\ dragRef' = FALSE
    /\ UNCHANGED <<selectorPos, weightVars, contact>>
    /\ UNCHANGED <<darkMode, displayVars, localVars, sessionVars, calcVars, apartVars>>

NextDrag ==
    \/ \E pt \in Contacts : onMouseDown(pt)
    \/ \E pt \in Contacts : onMouseMove(pt)
    \/ onMouseUp
    \/ \E pt \in Contacts : onTouchStart(pt)
    \/ \E pt \in Contacts : onTouchMove(pt)
    \/ onTouchEnd

SpecDrag == InitDrag /\ [][NextDrag]_vars

(***************************************************************************)
(* The grid of one search (SpecGrid): lines 524-559 of processLocation on  *)
(* their own, for every stop of the radius slider.  A sample keeps its     *)
(* ring, its index and the ringRadius its position was computed from:      *)
(*   lat = currentCenter.lat + (ringRadius / 111.32) * sin(angle)          *)
(*   lon = currentCenter.lng + (ringRadius / (111.32 * cos(..))) * cos(..) *)
(* so a sample is the centre itself exactly when its ringRadius is 0.  The *)
(* centre and the angles do not enter the number, the tags or the order of *)
(* the samples and are not represented.                                    *)
(***************************************************************************)
SliderStops ==
    {v \in sliderMin..sliderMax : (v - sliderMin) % sliderStep = 0}

\* Mutant: the ring index is divided by the number of rings.
ringRadiusShort(ring, maxRadiusKm) ==
    Times(Over(Whole(ring), Whole(numRings)), Whole(maxRadiusKm))

\* (ring / (numRings - 1)) * maxRadiusKm
ringRadius(ring, maxRadiusKm) ==
    Times(Over(Whole(ring), Whole(numRings - 1)), Whole(maxRadiusKm))

\* onChange of the slider: setSearchRadius(parseFloat(e.target.value))
setSearchRadius(v) ==
    /\ searchRadius' = v
    /\ UNCHANGED <<grid, data>>
    /\ UNCHANGED <<weightVars, darkMode, displayVars, localVars, sessionVars,
                   selectorPos, dragRef, contact, apartVars>>

\* const maxRadiusKm = searchRadius, then the two loops that fill samples
GenerateGrid ==
    /\ \E maxRadiusKm \in {searchRadius}, filled \in {samples} :
         grid' = [k \in 1..Len(filled) |->
                    [ring       |-> filled[k].ring,
                     index      |-> filled[k].index,
                     ringRadius |-> ringRadius(filled[k].ring, maxRadiusKm)]]
    /\ UNCHANGED <<searchRadius, data>>
    /\ UNCHANGED <<weightVars, darkMode, displayVars, localVars, sessionVars,
                   selectorPos, dragRef, contact, apartVars>>

NextGrid ==
    \/ \E v \in SliderStops : setSearchRadius(v)
    \/ GenerateGrid

\* the component as mounted, then slider moves and grid generations
SpecGrid == InitDrag /\ [][NextGrid]_vars

(***************************************************************************)
(* One scoring callback on its own (SpecScore): lines 573-624 for one      *)
(* sample and one forecast, under every weight triple the triangle control *)
(* can leave (numerators over WeightDen that sum to WeightDen) and both    *)
(* wind modes.  data is the forecast the callback got; what allSettled     *)
(* records for it is batchResults[1].                                      *)
(***************************************************************************)
WeightTriples ==
    {w \in [sol : 0..WeightDen, temp : 0..WeightDen, wind : 0..WeightDen] :
        w.sol + w.temp + w.wind = WeightDen}

\* air temperatures: TEMP_OPT and values on both sides of it
ObsTemps ==
    {TEMP_OPT + d : d \in {0, 1, 19, 20, 21, 45, 46}}
    \cup {TEMP_OPT - d : d \in {1, 19, 20, 21, 45, 46}}

ObsWinds == {0, 1, CALM_MAX, STORM_OPT, STORM_OPT + 1, 2 * STORM_OPT, 35}

\* one-entry forecasts: every temperature with every wind under a partly
\* clouded sky, and the ends of the three ranges with each other
Observations ==
    {Entry(30, t, w) : t \in ObsTemps, w \in ObsWinds}
    \cup {Entry(c, t, w) : c \in {0, CLOUD_FULL},
                           t \in {TEMP_OPT - 46, TEMP_OPT, TEMP_OPT + 46},
                           w \in {0, STORM_OPT, 35}}

\* 24 entries that alternate between 5 and 45 degrees, then a 25th
SeriesLong ==
    Json([k \in 1..(WINDOW + 1) |->
            IF k > WINDOW THEN Entry(CLOUD_FULL, 60, 40)
            ELSE IF k % 2 = 0 THEN Entry(0, 5, 0)
            ELSE Entry(CLOUD_FULL, 45, 2 * STORM_OPT)])

\* an entry without instant details between two with
SeriesGap == Json(<<Entry(20, 15, 5), NoDetailsEntry, Entry(60, 30, 10)>>)

Forecasts ==
    {Json(<<e>>) : e \in Observations}
    \cup {SeriesLong, SeriesGap, SeriesMixed, SeriesNoDetails, Reject, ErrorBody}

InitScore ==
    /\ InitCommon
    /\ \E w \in WeightTriples :
         /\ solWeight = w.sol
         /\ tempWeight = w.temp
         /\ windWeight = w.wind
    /\ provider = Provider(0, SeriesClear, SeriesClear, 0, SeriesClear)

\* onClick={() => setDarkMode(!darkMode)}
toggleDarkMode ==
    /\ darkMode' = ~darkMode
    /\ UNCHANGED <<weightVars, displayVars, localVars, sessionVars, selectorPos,
                   dragRef, contact, calcVars, apartVars>>

\* the callback of one sample runs on the forecast resp, with the weights
\* as processLocation divides them by their total
Callback(resp) ==
    /\ data' = resp
    /\ batchResults' =
         [p \in {1} |->
            CallbackResult(p, resp, Weights(solWeight, tempWeight, windWeight),
                           darkMode)]
    /\ UNCHANGED <<weightVars, darkMode, displayVars, sessionVars, selectorPos,
                   dragRef, contact, searchRadius, grid, apartVars>>
    /\ UNCHANGED <<provider, pc, wLocal, closure, maxRadius, batchStart, outstanding,
                   allWeatherSpots, bestPoint, bestScore, sortedSpots,
                   nameOutstanding, topSpotsWithNames, placeName, metCalls,
                   geoCalls, forecastCalls, setterLog, silent>>

NextScore ==
    \/ toggleDarkMode
    \/ \E resp \in Forecasts : Callback(resp)

SpecScore == InitScore /\ [][NextScore]_vars

(***************************************************************************)
(* The controls while a search runs (SpecLive).                            *)
(*                                                                         *)
(* The triangle, the dark-mode button and the radius slider stay enabled   *)
(* during a search.  Their handlers set component state; React renders     *)
(* again and creates a new processLocation, but the invocation that is     *)
(* running keeps the constants of the render that created it.              *)
(***************************************************************************)
\* pointer positions of the drags followed here: vertex A and the centroid
DragStops == {<<centerX, centerY - radius>>, <<centerX, centerY>>}

\* slider positions followed here
LiveStops == {sliderMin, sliderDefault}

\* what handleDrag sets for the pointer position pt: the constrained point,
\* and its weights divided by their total as numerators over WeightDen
DragTargets ==
    [pt \in DragStops |->
       CHOOSE x \in [constrainedPoint : {constrainToTriangle(PointAt(pt))},
                     weights : WeightTriples] :
         \E w \in {barycentric(x.constrainedPoint)} :
           \E total \in {Plus(Plus(w.wA, w.wB), w.wC)} :
             /\ Over(w.wA, total) = Over(Whole(x.weights.sol), Whole(WeightDen))
             /\ Over(w.wB, total) = Over(Whole(x.weights.temp), Whole(WeightDen))
             /\ Over(w.wC, total) = Over(Whole(x.weights.wind), Whole(WeightDen))]

\* handleDrag with the pointer at pt: setSelectorPos, then the three weight
\* setters
dragTo(pt) ==
    /\ contact' = pt
    /\ selectorPos' = DragTargets[pt].constrainedPoint
    /\ solWeight' = DragTargets[pt].weights.sol
    /\ tempWeight' = DragTargets[pt].weights.temp
    /\ windWeight' = DragTargets[pt].weights.wind
    /\ UNCHANGED <<darkMode, displayVars, localVars, sessionVars, dragRef,
                   calcVars, apartVars>>

\* the component as mounted; the provider serves an overcast forecast for
\* the first FailCount samples and a clear one for the others
InitLive ==
    /\ InitCommon
    /\ solWeight = InitialWeights.sol
    /\ tempWeight = InitialWeights.temp
    /\ windWeight = InitialWeights.wind
    /\ provider = Provider(FailCount, SeriesClear, SeriesOvercast, 0, SeriesClear)

\* the edits followed are those made between the start of the search and
\* its end, while loading is set
NextLive ==
    \/ Next
    \/ loading /\ \E pt \in DragStops : dragTo(pt)
    \/ loading /\ toggleDarkMode
    \/ loading /\ \E v \in LiveStops : setSearchRadius(v)

SpecLive == InitLive /\ [][NextLive]_vars

(***************************************************************************)
(* The proxy (SpecProxy): the handlers of /api/geocode and /api/met.       *)
(*                                                                         *)
(* The repository holds two copies of the handlers.  The "direct" build    *)
(* (server.js 15-85, api/geocode.js, api/met.js) fetches upstream at once  *)
(* with AbortSignal.timeout(10000); the "delayed" build (server.js         *)
(* 118-195) awaits a 1000 ms timer before the Nominatim request and reads  *)
(* the body of a non-OK Nominatim answer for its log.  A deployment runs   *)
(* one build, the build of the first request a behaviour shows.            *)
(*                                                                         *)
(* A parameter of req.query is "undefined" (absent), "" or "v" (any other  *)
(* text).  Time is in milliseconds and advances in steps of Tick; a timer  *)
(* fires at or after its due time.  sent is the history of the upstream    *)
(* requests: who asked for it, which host, when.                           *)
(***************************************************************************)
Builds == {"direct", "delayed"}

\* setTimeout(resolve, 1000)
DELAY_MS == 1000

Tick == DELAY_MS

\* Number of steps the clock of SpecProxy takes.
MaxTicks == 1

ParamValues == {"undefined", "", "v"}

Query(type, q, lat, lon) == [type |-> type, q |-> q, lat |-> lat, lon |-> lon]

\* the coordinates of a request: both given, one absent, one empty, none
LatLons == {<<"v", "v">>, <<"undefined", "v">>, <<"v", "">>, <<"undefined", "undefined">>}

\* reverse lookups with and without coordinates, one with q in their place,
\* and forward lookups with and without q
GeocodeQueries ==
    {Query("reverse", "undefined", ll[1], ll[2]) : ll \in LatLons}
    \cup {Query("reverse", "v", "undefined", "undefined")}
    \cup {Query("undefined", q, "undefined", "undefined") : q \in ParamValues}

MetQueries == {Query("undefined", "undefined", ll[1], ll[2]) : ll \in LatLons}

\* What the upstream fetch comes to: a rejection (network error, or the
\* abort of the 10 s timeout), or an answer with a status whose body can or
\* cannot be read (upstream.json() / upstream.text() rejects).
Outcome(kind, status, body) == [kind |-> kind, status |-> status, body |-> body]

UpstreamStatuses == {200, 429}

Outcomes ==
    {Outcome("reject", 0, FALSE)}
    \cup {Outcome("answer", st, body) : st \in UpstreamStatuses, body \in BOOLEAN}

\* Mutant: only an absent parameter counts as missing.
FalsyAbsent(x) == x = "undefined"

\* !x for a query parameter
Falsy(x) == x \in {"undefined", ""}

\* the branch the handler takes on req.query: the message of its 400
\* response, or the upstream host it goes on to ask
Validate(route, query) ==
    IF route = "geocode"
    THEN IF query.type = "reverse"
         THEN IF Falsy(query.lat) \/ Falsy(query.lon)
              THEN [status |-> 400, error |-> "Missing lat or lon"]
              ELSE [status |-> 0, error |-> NULL]
         ELSE IF Falsy(query.q)
              THEN [status |-> 400, error |-> "Missing q"]
              ELSE [status |-> 0, error |-> NULL]
    ELSE IF Falsy(query.lat) \/ Falsy(query.lon)
         THEN [status |-> 400, error |-> "Missing lat or lon"]
         ELSE [status |-> 0, error |-> NULL]

HostOf(route) == IF route = "geocode" THEN "nominatim" ELSE "met"

\* upstream.ok
Ok(status) == status \in 200..299

\* Mutant: a non-OK upstream answer is passed on as a success.
RespondOk(b, route, outcome) ==
    IF outcome.kind = "reject" THEN 500
    ELSE IF outcome.body THEN 200 ELSE 500

\* The status of the response after the upstream fetch has settled: the
\* catch block's 500 for a rejection or an unreadable body, the upstream
\* status when it is not OK, else 200 with the parsed body.
Respond(b, route, outcome) ==
    IF outcome.kind = "reject" THEN 500
    ELSE IF ~Ok(outcome.status)
         THEN IF b = "delayed" /\ route = "geocode" /\ ~outcome.body
              THEN 500
              ELSE outcome.status
         ELSE IF outcome.body THEN 200 ELSE 500

\* await fetch(url, ...): the request goes out now
Fetch(id, route) ==
    sent' = Append(sent, [id |-> id, host |-> HostOf(route), at |-> now])

Arrived == {id \in 1..MaxRequests : reqs[id].pc # "free"}

\* A client request arrives and its handler runs to its first await, or to
\* the return after its 400 response.
Arrive(id, b, route, query) ==
    /\ id = Cardinality(Arrived) + 1
    /\ id <= MaxRequests
    /\ \A j \in Arrived : reqs[j].build = b
    /\ \E v \in {Validate(route, query)} :
         IF v.status = 400
         THEN /\ reqs' = [reqs EXCEPT ![id] =
                            [build |-> b, route |-> route, query |-> query,
                             pc |-> "done", wakeAt |-> 0, outcome |-> NULL,
                             responses |-> <<400>>]]
              /\ UNCHANGED sent
         ELSE IF b = "delayed" /\ route = "geocode"
         THEN /\ reqs' = [reqs EXCEPT ![id] =
                            [build |-> b, route |-> route, query |-> query,
                             pc |-> "delay", wakeAt |-> now + DELAY_MS,
                             outcome |-> NULL, responses |-> <<>>]]
              /\ UNCHANGED sent
         ELSE /\ reqs' = [reqs EXCEPT ![id] =
                            [build |-> b, route |-> route, query |-> query,
                             pc |-> "upstream", wakeAt |-> 0, outcome |-> NULL,
                             responses |-> <<>>]]
              /\ Fetch(id, route)
    /\ UNCHANGED <<now, placeVars>>
    /\ UNCHANGED <<weightVars, darkMode, displayVars, localVars, sessionVars,
                   selectorPos, dragRef, contact, calcVars>>

\* The 1000 ms timer of request id fires: the Nominatim request goes out.
TimerFires(id) ==
    /\ reqs[id].pc = "delay"
    /\ now >= reqs[id].wakeAt
    /\ reqs' = [reqs EXCEPT ![id].pc = "upstream"]
    /\ Fetch(id, reqs[id].route)
    /\ UNCHANGED <<now, placeVars>>
    /\ UNCHANGED <<weightVars, darkMode, displayVars, localVars, sessionVars,
                   selectorPos, dragRef, contact, calcVars>>

\* The upstream fetch of request id settles and the handler runs to its end.
UpstreamSettles(id, outcome) ==
    /\ reqs[id].pc = "upstream"
    /\ reqs' = [reqs EXCEPT
                  ![id].pc = "done",
                  ![id].outcome = outcome,
                  ![id].responses =
                      Append(@, Respond(reqs[id].build, reqs[id].route, outcome))]
    /\ UNCHANGED <<now, sent, placeVars>>
    /\ UNCHANGED <<weightVars, darkMode, displayVars, localVars, sessionVars,
                   selectorPos, dragRef, contact, calcVars>>

\* Time passes.
Advance ==
    /\ now + Tick <= MaxTicks * Tick
    /\ now' = now + Tick
    /\ UNCHANGED <<reqs, sent, placeVars>>
    /\ UNCHANGED <<weightVars, darkMode, displayVars, localVars, sessionVars,
                   selectorPos, dragRef, contact, calcVars>>

NextProxy ==
    \/ \E id \in 1..MaxRequests, b \in Builds, query \in GeocodeQueries :
         Arrive(id, b, "geocode", query)
    \/ \E id \in 1..MaxRequests, b \in Builds, query \in MetQueries :
         Arrive(id, b, "met", query)
    \/ \E id \in 1..MaxRequests : TimerFires(id)
    \/ \E id \in 1..MaxRequests, outcome \in Outcomes : UpstreamSettles(id, outcome)
    \/ Advance

\* the component as mounted beside a proxy that has served no request
SpecProxy == InitDrag /\ [][NextProxy]_vars

(***************************************************************************)
(* The place input and its suggestions (SpecPlace): the onChange of the    *)
(* input, the effect on [manualLocation, hasSelectedSuggestion] with its   *)
(* 300 ms timer and its lookup, handlePickSuggestion and the Escape key.   *)
(*                                                                         *)
(* effects is the history of the runs of the effect that set a timer, the  *)
(* latest last: its query, its variable active, and where its callback is  *)
(* ("timer": waiting for the timer, "cleared": timer cancelled, "fetch":   *)
(* lookup in flight, "done").  A handler is taken together with the render *)
(* and the effect run its state changes cause: the cleanup of the previous *)
(* run, then the new run.  A suggestion is [query, n]: the n-th place of   *)
(* the answer to the lookup of query.                                      *)
(***************************************************************************)
\* Number of timers one behaviour of SpecPlace sets.
MaxEffects == 3

Texts == {"", "O", "Os", TypedPlace, "Oslo, Oslo"}

\* manualLocation.trim().length < 2
Short(text) == text \in {"", "O"}

\* the text handlePickSuggestion puts into the input: the primary name, with
\* the municipality, county and state that differ from it
Display(s) == IF s.n = 1 THEN TypedPlace ELSE "Oslo, Oslo"

Suggestion(query, n) == [query |-> query, n |-> n]

\* what the lookup comes to: an array of places, an empty array, a JSON body
\* that is no array, or a rejection (network error, timeout, no JSON)
LookupResponses == {"two", "one", "none", "errorBody", "reject"}

\* Mutant: whatever the response is, both places are listed.
ListedAll(query, resp) == <<Suggestion(query, 1), Suggestion(query, 2)>>

\* Array.isArray(data) ? data : [], and [] in the catch block
Listed(query, resp) ==
    IF resp = "two" THEN <<Suggestion(query, 1), Suggestion(query, 2)>>
    ELSE IF resp = "one" THEN <<Suggestion(query, 1)>>
    ELSE <<>>

\* Mutant: the cleanup cancels the timer and leaves active alone.
CleanedTimerOnly ==
    [k \in 1..Len(effects) |->
        IF effects[k].at = "timer"
        THEN [effects[k] EXCEPT !.at = "cleared"]
        ELSE effects[k]]

\* the cleanup of the previous run: active = false, clearTimeout(id)
Cleaned ==
    [k \in 1..Len(effects) |->
        [effects[k] EXCEPT !.active = FALSE,
                           !.at = IF @ = "timer" THEN "cleared" ELSE @]]

\* The effect runs again for the new text and flag; list is the suggestion
\* list as the handler left it.
RunEffect(text, selected, list) ==
    IF Blank(text) \/ Short(text) \/ selected
    THEN /\ suggestions' = <<>>
         /\ effects' = Cleaned
    ELSE /\ suggestions' = list
         /\ effects' = Append(Cleaned, [query |-> text, active |-> TRUE, at |-> "timer"])

\* onChange of the input: the text changes to text
onChange(text) ==
    /\ text # manualLocation
    /\ (~Short(text)) => Len(effects) < MaxEffects
    /\ manualLocation' = text
    /\ hasSelectedSuggestion' = FALSE
    /\ RunEffect(text, FALSE, suggestions)
    /\ UNCHANGED <<isSearchingPlaces, proxyVars>>
    /\ UNCHANGED <<weightVars, darkMode, displayVars, localVars, sessionVars,
                   selectorPos, dragRef, contact, calcVars>>

\* The 300 ms timer of run k fires: setIsSearchingPlaces(true), then the
\* lookup is sent.
Debounced(k) ==
    /\ effects[k].at = "timer"
    /\ isSearchingPlaces' = TRUE
    /\ effects' = [effects EXCEPT ![k].at = "fetch"]
    /\ UNCHANGED <<manualLocation, hasSelectedSuggestion, suggestions, proxyVars>>
    /\ UNCHANGED <<weightVars, darkMode, displayVars, localVars, sessionVars,
                   selectorPos, dragRef, contact, calcVars>>

\* The lookup of run k settles with resp: if (!active) return in the try and
\* in the catch, if (active) setIsSearchingPlaces(false) in the finally.
LookupSettles(k, resp) ==
    /\ effects[k].at = "fetch"
    /\ effects' = [effects EXCEPT ![k].at = "done"]
    /\ IF effects[k].active
       THEN /\ suggestions' = Listed(effects[k].query, resp)
            /\ isSearchingPlaces' = FALSE
       ELSE UNCHANGED <<suggestions, isSearchingPlaces>>
    /\ UNCHANGED <<manualLocation, hasSelectedSuggestion, proxyVars>>
    /\ UNCHANGED <<weightVars, darkMode, displayVars, localVars, sessionVars,
                   selectorPos, dragRef, contact, calcVars>>

\* a click on suggestion i, or Enter with suggestion i selected
handlePickSuggestion(i) ==
    /\ i \in 1..Len(suggestions)
    /\ manualLocation' = Display(suggestions[i])
    /\ hasSelectedSuggestion' = TRUE
    /\ RunEffect(Display(suggestions[i]), TRUE, <<>>)
    /\ UNCHANGED <<isSearchingPlaces, proxyVars>>
    /\ UNCHANGED <<weightVars, darkMode, displayVars, localVars, sessionVars,
                   selectorPos, dragRef, contact, calcVars>>

\* handleKeyDown, case 'Escape'
Escape ==
    /\ suggestions # <<>>
    /\ suggestions' = <<>>
    /\ UNCHANGED <<manualLocation, hasSelectedSuggestion, isSearchingPlaces,
                   effects, proxyVars>>
    /\ UNCHANGED <<weightVars, darkMode, displayVars, localVars, sessionVars,
                   selectorPos, dragRef, contact, calcVars>>

NextPlace ==
    \/ \E text \in Texts : onChange(text)
    \/ \E k \in 1..MaxEffects : k <= Len(effects) /\ Debounced(k)
    \/ \E k \in 1..MaxEffects, resp \in LookupResponses :
         k <= Len(effects) /\ LookupSettles(k, resp)
    \/ \E i \in 1..2 : handlePickSuggestion(i)
    \/ Escape

\* the component as mounted, then typing, timers, answers and picks
SpecPlace == InitDrag /\ [][NextPlace]_vars

(***************************************************************************)
(* Vocabulary of the properties                                            *)
(***************************************************************************)
\* the forecast of sample p is usable: JSON whose 24-entry window has at
\* least one entry with instant details
FetchOk(p) ==
    LET r == MetResp(provider, p)
    IN  /\ r.kind = "json"
        /\ \E i \in 1..Min(Len(r.timeseries), WINDOW) : r.timeseries[i].details

Successes == {p \in 1..NumSamples : FetchOk(p)}

\* the score the scoring function gives the forecast of sample p
ExpectedScore(p) ==
    score(Totals(forecast24h(MetResp(provider, p).timeseries)), wLocal,
          closure.darkMode)

TotalWeight == solWeight + tempWeight + windWeight

\* processLocation has left the batch loop
BatchesDone ==
    \/ pc \in {"naming", "bestName", "forecast"}
    \/ pc \in {"returned", "threw"} /\ "setTopWeatherSpots" \in setterLog

Ended == pc \in {"returned", "threw"}

TopWritten == "setTopWeatherSpots" \in setterLog

(***************************************************************************)
(* C1: when the three weights sum to zero, the search ends at once with    *)
(* the invalid-input message: no geocoding request, no forecast request,   *)
(* no grid point evaluated, loading cleared.                               *)
(***************************************************************************)
C1_InvalidInputBeforeIO ==
    (TotalWeight = 0 /\ pc # "idle") =>
        /\ pc = "returned"
        /\ error = InvalidMsg
        /\ ~loading
        /\ geoCalls = 0
        /\ \A p \in 1..NumSamples : metCalls[p] = 0
        /\ forecastCalls = <<>>
        /\ searchProgress = <<>>
        /\ allWeatherSpots = <<>>
        /\ outstanding = {}

C1_Witness == TotalWeight = 0 /\ pc = "returned" /\ error = InvalidMsg

(***************************************************************************)
(* C2: when every forecast fetch of the grid fails, the search ends with   *)
(* an error surfaced to the caller and without having written a result:    *)
(* it returns with an error message set, setTopWeatherSpots and setBest    *)
(* were not called, and the null best point was not used.                  *)
(***************************************************************************)
C2_NoDataError ==
    (TotalWeight > 0 /\ Successes = {} /\ Ended) =>
        /\ pc = "returned"
        /\ error # NULL
        /\ "setTopWeatherSpots" \notin setterLog
        /\ "setBest" \notin setterLog

(***************************************************************************)
(* C3: if at least one scoring fetch succeeded, the search ends with a     *)
(* complete result (the best candidate with its forecast, and the top-K    *)
(* list); no later failure is fatal.                                       *)
(***************************************************************************)
C3_CompleteResult ==
    (TotalWeight > 0 /\ Successes # {} /\ Ended) =>
        /\ pc = "returned"
        /\ best # NoBest
        /\ best.forecast # <<>>
        /\ topWeatherSpots # <<>>
        /\ ~loading

(***************************************************************************)
(* C4: during the scoring phase every grid sample has its forecast         *)
(* requested at most once, and once the batch loop has ended every one of  *)
(* the samples has been requested exactly once, whichever fetches failed.  *)
(***************************************************************************)
C4_EachFetchedOnce ==
    /\ \A p \in 1..NumSamples : metCalls[p] <= 1
    /\ BatchesDone => \A p \in 1..NumSamples : metCalls[p] = 1
    /\ NumSamples = 81

\* a failed sample followed by later samples that were fetched and succeeded
C4_Witness ==
    /\ BatchesDone
    /\ \E p \in 1..NumSamples : \E q \in 1..NumSamples :
         p < q /\ ~FetchOk(p) /\ FetchOk(q) /\ metCalls[p] = 1 /\ metCalls[q] = 1

(***************************************************************************)
(* C5: after a search with s >= 1 successful candidates the top-K list has *)
(* exactly min(3, s) entries, each a candidate whose fetch succeeded.      *)
(***************************************************************************)
C5_TopKFromSuccesses ==
    (TopWritten /\ Successes # {}) =>
        /\ Len(topWeatherSpots) = Min(3, Cardinality(Successes))
        /\ \A i \in 1..Len(topWeatherSpots) : topWeatherSpots[i].p \in Successes

\* FailCount of the 81 fetches failed: three entries from the other samples
C5_Witness ==
    /\ TopWritten
    /\ Cardinality(Successes) = NumSamples - FailCount
    /\ Len(topWeatherSpots) = 3

(***************************************************************************)
(* C6: at most 10 scoring fetches are outstanding at any moment, all of    *)
(* the same batch; the samples requested so far are a prefix of the grid   *)
(* in generation order; and a forecast request is issued only in a step    *)
(* taken with no fetch outstanding and either the first batch pending or   *)
(* the inter-batch delay running.                                          *)
(***************************************************************************)
C6_BoundedBatches ==
    /\ [](/\ Cardinality(outstanding) <= 10
          /\ outstanding \subseteq Batch(batchStart)
          /\ \A p \in 2..NumSamples : metCalls[p] > 0 => metCalls[p - 1] > 0
          /\ pc = "sleep" => outstanding = {})
    /\ [][metCalls' # metCalls =>
            /\ outstanding = {}
            /\ pc \in {"geoUser", "sleep"}
            /\ \A p \in 1..NumSamples :
                 metCalls'[p] # metCalls[p] <=> p \in Batch(batchStart')]_vars

\* the second batch is in flight: ten fetches outstanding after a delay
C6_Witness ==
    /\ pc = "batch"
    /\ batchStart = BATCH_SIZE
    /\ Cardinality(outstanding) = 10

(***************************************************************************)
(* C7: while some fetch of a batch is outstanding no step writes the       *)
(* candidate pool or the running best.                                     *)
(***************************************************************************)
C7_NoWriteWhileOutstanding ==
    [][outstanding # {} => UNCHANGED <<allWeatherSpots, bestPoint, bestScore>>]_vars

\* a later batch is half settled with a success, and the pool still holds
\* exactly the results of the batches before it
C7_Witness ==
    /\ pc = "batch"
    /\ batchStart > 0
    /\ outstanding # {}
    /\ \E p \in Batch(batchStart) \ outstanding : FetchOk(p)
    /\ \A i \in 1..Len(allWeatherSpots) : allWeatherSpots[i].p <= batchStart
    /\ allWeatherSpots # <<>>

(***************************************************************************)
(* C8: after all batches the best candidate is the successful candidate    *)
(* with the maximum score that comes first in grid generation order, for   *)
(* every order in which the fetches of a batch complete.                   *)
(***************************************************************************)
C8_BestIsFirstMaximum ==
    (BatchesDone /\ Successes # {}) =>
        /\ bestPoint.p \in Successes
        /\ bestPoint.score = ExpectedScore(bestPoint.p)
        /\ bestScore = bestPoint.score
        /\ \A q \in Successes :
             /\ ~ScoreGT(ExpectedScore(q), bestPoint.score)
             /\ q < bestPoint.p => ScoreGT(bestPoint.score, ExpectedScore(q))

\* the best is not the first sample and later samples tie with it
C8_Witness ==
    /\ BatchesDone
    /\ bestPoint.p > 1
    /\ 1 \in Successes
    /\ \E q \in Successes :
         /\ q > bestPoint.p + BATCH_SIZE
         /\ ~ScoreGT(bestPoint.score, ExpectedScore(q))

(***************************************************************************)
(* C9: the top-K list is the first three elements of the pool sorted by    *)
(* descending score: scores do not increase along the list, no candidate   *)
(* left out has a greater score than the last listed one, and the entry at *)
(* position i (0-based) has rank i+1.                                      *)
(***************************************************************************)
C9_TopKSorted ==
    TopWritten =>
        /\ Len(topWeatherSpots) = Min(3, Len(allWeatherSpots))
        /\ \A i \in 1..Len(topWeatherSpots) :
             /\ topWeatherSpots[i].rank = i
             /\ \E j \in 1..Len(allWeatherSpots) :
                  /\ allWeatherSpots[j].p = topWeatherSpots[i].p
                  /\ allWeatherSpots[j].score = topWeatherSpots[i].score
             /\ \A j \in 1..Len(topWeatherSpots) :
                  i < j => /\ ~ScoreGT(topWeatherSpots[j].score, topWeatherSpots[i].score)
                           /\ topWeatherSpots[i].p # topWeatherSpots[j].p
        /\ \A j \in 1..Len(allWeatherSpots) :
             (\A i \in 1..Len(topWeatherSpots) : topWeatherSpots[i].p # allWeatherSpots[j].p)
                => ~ScoreGT(allWeatherSpots[j].score,
                            topWeatherSpots[Len(topWeatherSpots)].score)

\* three listed, the first strictly better than the third, others left out
C9_Witness ==
    /\ TopWritten
    /\ Len(topWeatherSpots) = 3
    /\ Len(allWeatherSpots) > 3
    /\ ScoreGT(topWeatherSpots[1].score, topWeatherSpots[3].score)

(***************************************************************************)
(* C10: with pure-sun weights and forecasts that all report cloud 0 except *)
(* the one of sample q reporting cloud 100, wherever q lies in the grid:   *)
(* the running best is never q once a zero-cloud sample has been folded,   *)
(* q is not in the top-K, and after the sort q is last in the pool.        *)
(***************************************************************************)
C10_OvercastRankedLast ==
    /\ (\E i \in 1..Len(allWeatherSpots) : allWeatherSpots[i].p # provider.q)
          => bestPoint.p # provider.q
    /\ BatchesDone =>
          /\ Len(allWeatherSpots) = NumSamples
          /\ allWeatherSpots[NumSamples].p = provider.q
    /\ TopWritten =>
          /\ Len(topWeatherSpots) = 3
          /\ \A i \in 1..3 : topWeatherSpots[i].p # provider.q
    /\ best # NoBest => best.p # provider.q

\* the overcast sample is the centre, evaluated first, and the search returned
C10_Witness ==
    /\ provider.q = 1
    /\ pc = "returned"
    /\ best # NoBest
    /\ Len(topWeatherSpots) = 3

(***************************************************************************)
(* C14: every forecast fetch and every geocoding lookup of a search is     *)
(* bounded by its own timeout, so one request the provider never answers   *)
(* cannot block the search: a search that has started and not ended can    *)
(* always take a further step.                                             *)
(***************************************************************************)
C14_NoRequestBlocks == pc = "idle" \/ Ended \/ ENABLED NextSilent

(***************************************************************************)
(* C15: a failed name lookup never fails the search, and in every          *)
(* completed search the best candidate and every top-K entry carry a       *)
(* defined name: the resolved place name, the coordinate label or          *)
(* 'Spot {rank}', also when the geocoder's body has neither an address     *)
(* nor a display name.                                                     *)
(***************************************************************************)
C15_NamesDefined ==
    (pc = "returned" /\ best # NoBest) =>
        /\ best.name \in {Place, Coords}
        /\ bestLocation.name \in {Place, Coords}
        /\ \A i \in 1..Len(topWeatherSpots) :
             topWeatherSpots[i].name \in {Place, Spot(i)}

(***************************************************************************)
(* C16: in a search with at least one successful candidate exactly one     *)
(* further forecast is requested after the ranking; it is for the best     *)
(* candidate and no other, and it is requested only after every scoring    *)
(* batch has completed, each sample having been fetched once: 81 + 1       *)
(* forecast requests in all.                                               *)
(***************************************************************************)
C16_OneFinalFetch ==
    /\ Len(forecastCalls) <= 1
    /\ forecastCalls # <<>> =>
         /\ BatchesDone
         /\ outstanding = {}
         /\ \A p \in 1..NumSamples : metCalls[p] = 1
         /\ forecastCalls = <<bestPoint.p>>
         /\ bestPoint.p \in Successes
         /\ NumSamples + Len(forecastCalls) = 81 + 1
    /\ (TotalWeight > 0 /\ Successes # {} /\ (pc = "forecast" \/ Ended)) =>
         Len(forecastCalls) = 1
    /\ pc \in {"idle", "geoUser", "batch", "sleep", "naming", "bestName"} =>
         forecastCalls = <<>>

\* a completed search with several successful candidates and some failed ones
C16_Witness ==
    /\ pc = "returned"
    /\ best # NoBest
    /\ Len(topWeatherSpots) = TOP_K
    /\ Cardinality(Successes) = NumSamples - FailCount
    /\ forecastCalls = <<best.p>>

(***************************************************************************)
(* C11: once a newer search has started, the earlier search is cancelled   *)
(* as a unit: no step of an invocation that is not the latest one writes   *)
(* the top-K list, the best candidate, the best location, the progress     *)
(* dots or the loading flag.                                               *)
(***************************************************************************)
C11_EarlierSearchCancelled ==
    [][\A s \in 1..MaxSearches :
          (s < started /\ runs'[s] # runs[s]) =>
              UNCHANGED <<topWeatherSpots, best, bestLocation, searchProgress,
                          loading>>]_vars

(***************************************************************************)
(* C12: a search that fails reports an error message and leaves the        *)
(* results of the previous successful search alone: an invocation that has *)
(* ended with an exception has set a message, the start of a search does   *)
(* not clear the best candidate, the best location or the top-K list, and  *)
(* no step of an invocation whose scoring fetches all fail changes them.   *)
(***************************************************************************)
C12_FailureKeepsResults ==
    /\ [](\A s \in 1..MaxSearches : runs[s].pc = "threw" => error # NULL)
    /\ [][started' # started =>
             UNCHANGED <<best, bestLocation, topWeatherSpots>>]_vars
    /\ [][\A s \in 1..MaxSearches :
             (runs'[s] # runs[s] /\ ~runs'[s].found) =>
                 UNCHANGED <<best, bestLocation, topWeatherSpots>>]_vars

(***************************************************************************)
(* C13: a result is replaced as a whole: whenever a best candidate and a   *)
(* non-empty top-K list are both displayed, the same invocation wrote      *)
(* both.                                                                   *)
(***************************************************************************)
C13_ResultOfOneSearch ==
    (best # NoBest /\ topWeatherSpots # <<>>) =>
        best.search = topWeatherSpots[1].search

\* constrainToTriangle(contact point) and the barycentric weights of that
\* point divided by their sum
contactOutcome ==
    [pt \in Contacts |->
        CHOOSE r \in UNION
            {{[pos |-> c,
               sol |-> Over(w.wA, Plus(Plus(w.wA, w.wB), w.wC)),
               temp |-> Over(w.wB, Plus(Plus(w.wA, w.wB), w.wC)),
               wind |-> Over(w.wC, Plus(Plus(w.wA, w.wB), w.wC))] :
                   w \in {barycentric(c)}} :
                 c \in {constrainToTriangle(PointAt(pt))}} : TRUE]

AbsNum(x) == IF Sign(x) < 0 THEN Minus(Whole(0), x) ELSE x

\* p is in the closed triangle A, B, C: not below the base B-C, and between
\* the two sides through the apex A, whose slope is tan(60 deg) = sqrt(3)
Inside(p) ==
    /\ vB.y = vC.y
    /\ Sign(Minus(vB.y, p.y)) >= 0
    /\ Sign(Minus(Minus(p.y, vA.y), Times(Sqrt3, AbsNum(Minus(p.x, vA.x))))) >= 0

(***************************************************************************)
(* C17: after any sequence of press, move and release events at any        *)
(* positions, inside or far outside the control, the selector lies inside  *)
(* or on the boundary of the triangle A, B, C.                             *)
(***************************************************************************)
C17_SelectorInTriangle == Inside(selectorPos)

\* the selector after a press far outside the control, not on a vertex
C17_Witness ==
    /\ dragRef
    /\ selectorPos \notin {vA, vB, vC}
    /\ \E pt \in Contacts :
         /\ Abs(pt[1] - centerX) = Far
         /\ selectorPos = contactOutcome[pt].pos

(***************************************************************************)
(* C18: from the initial weights (1/3, 1/3, 1/3) and after any sequence of *)
(* drag events the three weights are each >= 0 and sum to 1.               *)
(***************************************************************************)
C18_WeightsNormalized ==
    /\ Sign(solWeight) >= 0
    /\ Sign(tempWeight) >= 0
    /\ Sign(windWeight) >= 0
    /\ Plus(Plus(solWeight, tempWeight), windWeight) = Whole(1)

\* weights set by a drag to a point outside the triangle: one weight is 0
C18_Witness ==
    /\ selectorPos # weightsToPoint(Third, Third, Third)
    /\ Sign(solWeight) > 0
    /\ Sign(tempWeight) = 0
    /\ Sign(windWeight) > 0

(***************************************************************************)
(* C19: a move received while no drag is active leaves the selector and    *)
(* the three weights unchanged; a release (mouse-up, the pointer leaving   *)
(* the control, touch-end) clears the drag flag and leaves the selector    *)
(* and the weights as they were last computed.                             *)
(***************************************************************************)
C19_IdleMoveAndRelease ==
    [][/\ \A pt \in Contacts :
            (~dragRef /\ (onMouseMove(pt) \/ onTouchMove(pt))) =>
                UNCHANGED <<selectorPos, weightVars, dragRef>>
       /\ (onMouseUp \/ onTouchEnd) =>
            (~dragRef' /\ UNCHANGED <<selectorPos, weightVars>>)]_vars

\* released after a drag: the selector stays where the drag left it
C19_Witness ==
    /\ ~dragRef
    /\ selectorPos # weightsToPoint(Third, Third, Third)
    /\ Sign(tempWeight) > 0

\* the step sets the selector and the weights from the position pt alone
Applied(pt) ==
    /\ selectorPos' = contactOutcome[pt].pos
    /\ solWeight' = contactOutcome[pt].sol
    /\ tempWeight' = contactOutcome[pt].temp
    /\ windWeight' = contactOutcome[pt].wind

(***************************************************************************)
(* C20: a press (mouse-down, touch-start) sets the drag flag and in the    *)
(* same step puts the selector on constrainToTriangle(contact point) and   *)
(* the weights on the normalized barycentric weights of that point; every  *)
(* move during a drag does the same for its own position, whatever the     *)
(* earlier positions were.                                                 *)
(* Stated by contraposition: a step that does not end with the drag flag   *)
(* set and the outcome of pt applied is neither a press at pt nor a move   *)
(* at pt during a drag.                                                    *)
(***************************************************************************)
C20_PressAndMoveApply ==
    [][\A pt \in Contacts :
          ~(dragRef' /\ Applied(pt)) =>
              /\ ~(onMouseDown(pt) \/ onTouchStart(pt))
              /\ ~(dragRef /\ (onMouseMove(pt) \/ onTouchMove(pt)))]_vars

\* a drag in progress with the selector on a contact point inside the triangle
C20_Witness ==
    /\ dragRef
    /\ \E pt \in Contacts :
         /\ pt # <<centerX, centerY>>
         /\ contact = pt
         /\ selectorPos = PointAt(pt)
         /\ solWeight = contactOutcome[pt].sol

\* the three weights are >= 0
NonNegative(w) == Sign(w.wA) >= 0 /\ Sign(w.wB) >= 0 /\ Sign(w.wC) >= 0

(***************************************************************************)
(* C21: a point inside or on the boundary of the triangle is its own       *)
(* constrained point and its three barycentric weights are >= 0; so the    *)
(* constrained point of a constrained point is that point again.  Stated   *)
(* on the position last handed to handleDrag and on the selector, which is *)
(* an output of constrainToTriangle.                                       *)
(***************************************************************************)
C21_InsideIsFixed ==
    /\ (contact # NoContact /\ Inside(PointAt(contact))) =>
          /\ selectorPos = PointAt(contact)
          /\ constrainToTriangle(PointAt(contact)) = PointAt(contact)
          /\ NonNegative(barycentric(PointAt(contact)))
    /\ Inside(selectorPos) =>
          /\ constrainToTriangle(selectorPos) = selectorPos
          /\ NonNegative(barycentric(selectorPos))

\* the selector after a release, on an inner point that was pressed
C21_Witness ==
    /\ ~dragRef
    /\ contact # NoContact
    /\ contact # <<centerX, centerY>>
    /\ Inside(PointAt(contact))
    /\ selectorPos = PointAt(contact)

\* p is on one of the closed edges A-B, B-C, A-C
OnEdge(p) ==
    /\ Inside(p)
    /\ \/ p.y = vB.y
       \/ Minus(p.y, vA.y) = Times(Sqrt3, AbsNum(Minus(p.x, vA.x)))

\* (p - r) . (q - r)
DotFrom(r, p, q) ==
    Plus(Times(Minus(p.x, r.x), Minus(q.x, r.x)),
         Times(Minus(p.y, r.y), Minus(q.y, r.y)))

(***************************************************************************)
(* C22: the constrained point r of a point p outside the triangle lies on  *)
(* a closed edge, and no point of any edge is strictly closer to p.  The   *)
(* second part is stated on the three vertices: (p - r).(v - r) <= 0 for   *)
(* v = A, B, C.  Every point q of an edge is a mean of two vertices, so    *)
(* (p - r).(q - r) <= 0 too, and then                                      *)
(*   |p - q|^2 = |p - r|^2 + |q - r|^2 - 2 (p - r).(q - r) >= |p - r|^2.   *)
(***************************************************************************)
C22_NearestOnEdge ==
    (contact # NoContact /\ ~Inside(PointAt(contact))) =>
        /\ OnEdge(selectorPos)
        /\ \A v \in {vA, vB, vC} :
              Sign(DotFrom(selectorPos, PointAt(contact), v)) <= 0

\* a point outside whose nearest point is inside a slanted edge
C22_Witness ==
    /\ contact # NoContact
    /\ ~Inside(PointAt(contact))
    /\ selectorPos \notin {vA, vB, vC}
    /\ selectorPos.y # vB.y

(***************************************************************************)
(* C23: positions and weights convert both ways: the barycentric weights   *)
(* of the point of a weight triple are that triple, and the point of the   *)
(* barycentric weights of a point of the triangle is that point; the       *)
(* selector is the point of the weights in the initial state and in every  *)
(* later one.                                                              *)
(***************************************************************************)
C23_RoundTrip ==
    /\ weightsToPoint(solWeight, tempWeight, windWeight) = selectorPos
    /\ barycentric(weightsToPoint(solWeight, tempWeight, windWeight)) =
          [wA |-> solWeight, wB |-> tempWeight, wC |-> windWeight]
    /\ \E w \in {barycentric(selectorPos)} :
          weightsToPoint(w.wA, w.wB, w.wC) = selectorPos

\* weights with three different values, none of them 0
C23_Witness ==
    /\ Sign(windWeight) > 0
    /\ Less(windWeight, tempWeight)
    /\ Less(tempWeight, solWeight)

\* the tag (ring, index) of sample a comes before the tag of sample b
TagBefore(a, b) ==
    a.ring < b.ring \/ (a.ring = b.ring /\ a.index < b.index)

(***************************************************************************)
(* C24: for every radius of the slider the generated grid has exactly 81   *)
(* samples, no two of them with the same (ring, index) tag, listed ring by *)
(* ring in increasing ring and index order.                                *)
(***************************************************************************)
C24_GridShape ==
    grid # <<>> =>
        /\ Len(grid) = 81
        /\ Cardinality({<<grid[k].ring, grid[k].index>> : k \in DOMAIN grid})
              = Len(grid)
        /\ \A k \in 1..(Len(grid) - 1) : TagBefore(grid[k], grid[k + 1])

\* a grid generated with the slider on its last stop
C24_Witness ==
    /\ grid # <<>>
    /\ searchRadius = sliderMax
    /\ grid[Len(grid)].ringRadius = Whole(sliderMax)

C26_RingRadii ==
    [][GenerateGrid =>
        /\ Len(grid') = 1 + 8 + 16 + 24 + 32
        /\ \A k \in DOMAIN grid' :
              /\ Times(grid'[k].ringRadius, Whole(numRings - 1))
                    = Whole(grid'[k].ring * searchRadius)
              /\ ~Less(Whole(searchRadius), grid'[k].ringRadius)
              /\ grid'[k].ring = 0 => grid'[k].ringRadius = Whole(0)
              /\ grid'[k].ring = numRings - 1 =>
                    grid'[k].ringRadius = Whole(searchRadius)
        /\ \A k \in 1..(Len(grid') - 1) :
              ~Less(grid'[k + 1].ringRadius, grid'[k].ringRadius)]_vars

\* a grid whose rings are at fractions of a kilometre
C26_Witness ==
    /\ grid # <<>>
    /\ grid[2].ringRadius = Over(Whole(searchRadius), Whole(4))
    /\ grid[2].ringRadius.d = 4
    /\ grid[Len(grid)].ringRadius = Whole(searchRadius)

\* the totals the callback accumulates over the forecast d
ObsOf(d) == Totals(forecast24h(d.timeseries))

\* the callback computes a score for d: d has a series with a valid entry
Scored(d) == d.kind = "json" /\ ObsOf(d).validEntries > 0

\* the entries of the first 24 of the series that carry instant details
WindowOf(d) ==
    SelectSeq(SubSeq(d.timeseries, 1, Min(Len(d.timeseries), 24)),
              LAMBDA e : e.details)

\* every observation of the window has a cloud fraction in [0, 100] and a
\* wind speed >= 0
InRange(d) ==
    \A k \in DOMAIN WindowOf(d) :
        /\ WindowOf(d)[k].cloud \in 0..100
        /\ WindowOf(d)[k].wind >= 0

(***************************************************************************)
(* C27: for a forecast whose cloud fractions are in [0, 100] and whose     *)
(* wind speeds are >= 0, any temperatures, either wind mode and every      *)
(* weight triple with components >= 0 that sum to 1, each of the sun,      *)
(* temperature and wind sub-scores is in [0, 1] and so is the score.       *)
(***************************************************************************)
C27_ScoresInUnit ==
    (Scored(data) /\ InRange(data)) =>
        LET t == ObsOf(data)
            v == t.validEntries
            w == Weights(solWeight, tempWeight, windWeight)
            total == solWeight + tempWeight + windWeight
        IN  /\ 0 <= solNum(t) /\ solNum(t) <= 100 * v
            /\ 0 <= tempNum(t) /\ tempNum(t) <= 20 * v
            /\ 0 <= windNum(t, darkMode)
            /\ windNum(t, darkMode) <= windDen(darkMode) * v
            /\ 0 <= score(t, w, darkMode).num
            /\ score(t, w, darkMode).num <= v * ScoreScale(total, darkMode)

\* a freezing, stormy, overcast hour scored in storm mode for temperature
\* and wind weights
C27_Witness ==
    /\ Scored(data)
    /\ Len(data.timeseries) = 1
    /\ data.timeseries[1].temp < 0
    /\ data.timeseries[1].wind > 34
    /\ darkMode
    /\ solWeight = 0 /\ tempWeight > 0 /\ windWeight > 0
    /\ batchResults[1].status = "fulfilled"

\* |avgTemp - 25| of totals a is less than that of totals b
DevLess(a, b) ==
    Abs(a.totalTemp - 25 * a.validEntries) * b.validEntries
        < Abs(b.totalTemp - 25 * b.validEntries) * a.validEntries

\* |avgTemp - 25| of totals a is at least n
DevAtLeast(a, n) == Abs(a.totalTemp - 25 * a.validEntries) >= n * a.validEntries

\* tempScore of totals a is less than that of totals b
TempScoreLess(a, b) ==
    tempNum(a) * b.validEntries < tempNum(b) * a.validEntries

(***************************************************************************)
(* C28 as stated: tempScore strictly decreases as |temp - 25| increases,   *)
(* until it floors at 0 at a deviation of 45 degrees or more.  Two         *)
(* forecasts scored one after the other are compared.                      *)
(***************************************************************************)
C28_StrictDownTo45 ==
    /\ [](Scored(data) /\ DevAtLeast(ObsOf(data), 45) =>
            tempNum(ObsOf(data)) = 0)
    /\ [][(Scored(data) /\ Scored(data')
            /\ DevLess(ObsOf(data), ObsOf(data'))
            /\ ~DevAtLeast(ObsOf(data), 45)) =>
              TempScoreLess(ObsOf(data'), ObsOf(data))]_vars

(***************************************************************************)
(* C28 amended: tempScore is 1 at 25 degrees, strictly decreases as        *)
(* |temp - 25| increases up to 20 degrees, and is 0 at a deviation of 20   *)
(* degrees or more (at or below 5 and at or above 45 degrees C).           *)
(***************************************************************************)
C28_StrictDownTo20 ==
    /\ [](Scored(data) =>
            /\ DevAtLeast(ObsOf(data), 20) => tempNum(ObsOf(data)) = 0
            /\ ObsOf(data).totalTemp = 25 * ObsOf(data).validEntries =>
                  tempNum(ObsOf(data)) = 20 * ObsOf(data).validEntries)
    /\ [][(Scored(data) /\ Scored(data')
            /\ DevLess(ObsOf(data), ObsOf(data'))
            /\ ~DevAtLeast(ObsOf(data), 20)) =>
              TempScoreLess(ObsOf(data'), ObsOf(data))]_vars

\* a temperature 21 degrees below 25: on the floor well before 45
C28_Witness ==
    /\ Scored(data)
    /\ Len(data.timeseries) = 1
    /\ data.timeseries[1].temp = 25 - 21
    /\ tempNum(ObsOf(data)) = 0
    /\ batchResults[1].status = "fulfilled"

\* windScore of totals t in mode dark is the fraction n / k
WindScoreIs(t, dark, n, k) ==
    windNum(t, dark) * k = n * windDen(dark) * t.validEntries

\* avgWind of totals t compared with n metres per second
WindIs(t, n) == t.totalWind = n * t.validEntries

WindAtLeast(t, n) == t.totalWind >= n * t.validEntries

(***************************************************************************)
(* C29: the mode flag selects the wind profile.  Calm-seeking (flag off):  *)
(* 1 - min(wind/15, 1), which is 1 at 0 m/s, does not increase with the    *)
(* wind and is 0 from 15 m/s on.  Storm-seeking (flag on):                 *)
(* 1 - min(|wind - 17|/17, 1), which is 1 at 17 m/s and nowhere else, and  *)
(* 0 at 0 m/s and from 34 m/s on.  Winds are >= 0.                         *)
(***************************************************************************)
C29_WindProfiles ==
    /\ [](Scored(data) /\ InRange(data) =>
            LET t == ObsOf(data)
                v == t.validEntries
            IN  IF ~darkMode
                THEN /\ windNum(t, darkMode) * 15 * v =
                          (15 * v - Min(t.totalWind, 15 * v)) * windDen(darkMode) * v
                     /\ WindIs(t, 0) => WindScoreIs(t, darkMode, 1, 1)
                     /\ WindAtLeast(t, 15) => WindScoreIs(t, darkMode, 0, 1)
                ELSE /\ windNum(t, darkMode) * 17 * v =
                          (17 * v - Min(Abs(t.totalWind - 17 * v), 17 * v))
                            * windDen(darkMode) * v
                     /\ WindScoreIs(t, darkMode, 1, 1) <=> WindIs(t, 17)
                     /\ WindIs(t, 0) => WindScoreIs(t, darkMode, 0, 1)
                     /\ WindAtLeast(t, 34) => WindScoreIs(t, darkMode, 0, 1))
    /\ [][(Scored(data) /\ Scored(data') /\ InRange(data) /\ InRange(data')
            /\ ~darkMode /\ ~darkMode'
            /\ ObsOf(data).totalWind * ObsOf(data').validEntries
                  <= ObsOf(data').totalWind * ObsOf(data).validEntries) =>
              windNum(ObsOf(data'), FALSE) * ObsOf(data).validEntries
                  <= windNum(ObsOf(data), FALSE) * ObsOf(data').validEntries]_vars

\* 17 m/s scored in storm mode: the peak of one profile, the floor of the
\* other
C29_Witness ==
    /\ Scored(data)
    /\ darkMode
    /\ WindIs(ObsOf(data), 17)
    /\ WindScoreIs(ObsOf(data), TRUE, 1, 1)
    /\ WindScoreIs(ObsOf(data), FALSE, 0, 1)
    /\ batchResults[1].status = "fulfilled"

RECURSIVE SumOver(_, _)
\* the sum of field f over the entries of seq
SumOver(f, seq) ==
    IF seq = <<>> THEN 0 ELSE Head(seq)[f] + SumOver(f, Tail(seq))

RECURSIVE SumTempScores(_)
\* 20 times the sum of the temperature scores of the entries, each scored
\* on its own
SumTempScores(seq) ==
    IF seq = <<>> THEN 0
    ELSE 20 - Min(Abs(Head(seq).temp - 25), 20) + SumTempScores(Tail(seq))

(***************************************************************************)
(* C30: the score of a forecast is the sub-score formulas applied to the   *)
(* arithmetic means of cloud fraction, temperature and wind speed, each    *)
(* taken on its own over the entries of the first 24 of the series; the    *)
(* sun score the code averages entry by entry, 1 - cloud/100, is the       *)
(* formula applied to the mean cloud fraction.  With n entries and sums    *)
(* C, T, W the three sub-scores are                                        *)
(*   (100 n - C) / (100 n),   (20 n - min(|T - 25 n|, 20 n)) / (20 n),     *)
(*   (k n - min(W or |W - 17 n|, k n)) / (k n),  k = 15 or 17,             *)
(* and what allSettled records is their weighted sum.                      *)
(***************************************************************************)
C30_ScoreOfMeans ==
    Scored(data) =>
        LET n == Len(WindowOf(data))
            C == SumOver("cloud", WindowOf(data))
            T == SumOver("temp", WindowOf(data))
            W == SumOver("wind", WindowOf(data))
            t == ObsOf(data)
            sun == 100 * n - C
            tmp == 20 * n - Min(Abs(T - 25 * n), 20 * n)
            wnd == IF darkMode THEN 17 * n - Min(Abs(W - 17 * n), 17 * n)
                   ELSE 15 * n - Min(W, 15 * n)
            k == IF darkMode THEN 17 ELSE 15
            w == Weights(solWeight, tempWeight, windWeight)
        IN  /\ t.validEntries = n
            /\ solNum(t) = sun
            /\ tempNum(t) = tmp
            /\ windNum(t, darkMode) = wnd
            /\ score(t, w, darkMode).valid = n
            /\ score(t, w, darkMode).num =
                  solWeight * sun * (20 * k) + tempWeight * tmp * (100 * k)
                    + windWeight * wnd * (100 * 20)

\* a series longer than the window whose mean temperature scores 1 while
\* each of its entries scores 0
C30_Witness ==
    /\ Scored(data)
    /\ Len(data.timeseries) > 24
    /\ Len(WindowOf(data)) = 24
    /\ tempNum(ObsOf(data)) = 20 * 24
    /\ SumTempScores(WindowOf(data)) = 0
    /\ batchResults[1].status = "fulfilled"

(***************************************************************************)
(* C31: scoring is deterministic.  The score of a candidate is the value   *)
(* of the scoring function on its observation series, the weights and the  *)
(* wind mode of the search, whatever its batch, its place in the batch,    *)
(* the order in which the fetches completed and the other candidates: two  *)
(* candidates with the same series have the same score.  The pool is      *)
(* written by the fan-in and the sort only, so it is looked at after them. *)
(***************************************************************************)
\* the observation series the provider serves for sample p
SeriesOf(p) == MetResp(provider, p).timeseries

C31_ScoreIsFunctionOfInputs ==
    /\ \A p \in DOMAIN batchResults :
         batchResults[p].status = "fulfilled" =>
           /\ batchResults[p].value.score = ExpectedScore(p)
           /\ \A i \in {1, Len(allWeatherSpots)} \cap DOMAIN allWeatherSpots :
                SeriesOf(allWeatherSpots[i].p) = SeriesOf(p) =>
                  allWeatherSpots[i].score = batchResults[p].value.score
    /\ pc \in {"sleep", "naming", "returned"} =>
         \A i \in 1..Len(allWeatherSpots) :
           /\ allWeatherSpots[i].score = ExpectedScore(allWeatherSpots[i].p)
           /\ \A j \in {1, i - 1} \cap DOMAIN allWeatherSpots :
                SeriesOf(allWeatherSpots[i].p) = SeriesOf(allWeatherSpots[j].p) =>
                  allWeatherSpots[i].score = allWeatherSpots[j].score

\* a later sample of the third batch has been scored before an earlier one,
\* with the same series and score as a candidate of the first batch, while
\* another candidate with another series has another score
C31_Witness ==
    /\ pc = "batch"
    /\ batchStart = 2 * BATCH_SIZE
    /\ \E p \in outstanding : \E q \in DOMAIN batchResults :
         /\ p < q
         /\ batchResults[q].status = "fulfilled"
         /\ \E i \in 1..Len(allWeatherSpots) : \E j \in 1..Len(allWeatherSpots) :
              /\ allWeatherSpots[i].p <= BATCH_SIZE
              /\ SeriesOf(allWeatherSpots[i].p) = SeriesOf(q)
              /\ allWeatherSpots[i].score = batchResults[q].value.score
              /\ SeriesOf(allWeatherSpots[j].p) # SeriesOf(q)
              /\ allWeatherSpots[j].score # batchResults[q].value.score

(***************************************************************************)
(* C32: the geocode proxy sends at most one request per second to          *)
(* Nominatim: any two upstream Nominatim requests, also of client requests *)
(* that arrive together, are at least one second apart.  Stated for the    *)
(* build that awaits the 1000 ms timer before each Nominatim request.      *)
(***************************************************************************)
C32_UpstreamSpacing ==
    \A i \in 1..Len(sent) : \A j \in 1..Len(sent) :
        (/\ i < j
         /\ sent[i].host = "nominatim" /\ sent[j].host = "nominatim"
         /\ reqs[sent[i].id].build = "delayed") =>
            sent[j].at - sent[i].at >= 1000

(***************************************************************************)
(* C33: every request to /api/geocode or /api/met gets exactly one         *)
(* response once its handler has finished and none before, and validation  *)
(* comes before any upstream call: a reverse or weather request without    *)
(* lat or lon, or a forward request without q, is answered with 400 and no *)
(* upstream request is made for it; otherwise one upstream request is      *)
(* made, a non-OK upstream status is relayed with that status, a thrown    *)
(* error (rejected fetch, unreadable body) yields 500, and an OK answer     *)
(* yields 200.                                                             *)
(***************************************************************************)
\* the parameter is absent or empty
Missing(x) == x = "undefined" \/ x = ""

\* the request lacks what its route needs
Incomplete(r) ==
    IF r.route = "met" \/ r.query.type = "reverse"
    THEN Missing(r.query.lat) \/ Missing(r.query.lon)
    ELSE Missing(r.query.q)

UpstreamOf(id) == {k \in 1..Len(sent) : sent[k].id = id}

\* the upstream fetch threw, or reading the answer's body did
Threw(r) ==
    \/ r.outcome.kind = "reject"
    \/ r.outcome.status \in 200..299 /\ ~r.outcome.body
    \/ r.build = "delayed" /\ r.route = "geocode" /\ ~r.outcome.body

C33_OneResponseValidated ==
    \A id \in Arrived :
        LET r == reqs[id]
        IN  /\ Len(r.responses) = IF r.pc = "done" THEN 1 ELSE 0
            /\ Incomplete(r) =>
                 /\ r.pc = "done"
                 /\ r.responses = <<400>>
                 /\ UpstreamOf(id) = {}
            /\ ~Incomplete(r) =>
                 /\ Cardinality(UpstreamOf(id)) = IF r.pc = "delay" THEN 0 ELSE 1
                 /\ \A k \in UpstreamOf(id) : sent[k].host = HostOf(r.route)
                 /\ r.pc = "done" =>
                      r.responses =
                        IF Threw(r) THEN <<500>>
                        ELSE IF r.outcome.status \in 200..299 THEN <<200>>
                        ELSE <<r.outcome.status>>

\* a reverse request without lon got its 400 with nothing sent upstream,
\* and a forward request got the 429 of Nominatim relayed
C33_Witness ==
    \E a \in Arrived : \E b \in Arrived :
        /\ reqs[a].route = "geocode"
        /\ reqs[a].query.type = "reverse"
        /\ reqs[a].query.lon = ""
        /\ reqs[a].responses = <<400>>
        /\ UpstreamOf(a) = {}
        /\ reqs[b].route = "geocode"
        /\ reqs[b].query.type = "undefined"
        /\ reqs[b].responses = <<429>>
        /\ reqs[b].outcome.status = 429
        /\ reqs[b].outcome.body
        /\ Cardinality(UpstreamOf(b)) = 1

(***************************************************************************)
(* C34: every search that is started ends with the loading flag cleared,   *)
(* whichever requests fail, when every request settles: once               *)
(* processLocation has ended, by return or by exception, loading is false. *)
(* After the end of processLocation no step of the search is left that     *)
(* could clear the flag.                                                   *)
(***************************************************************************)
C34_EndsWithLoadingCleared == Ended => ~loading

(***************************************************************************)
(* C35: at most one search is in flight at any time: while an invocation   *)
(* started by the search button has outstanding requests or pending steps, *)
(* loading is true (the button is disabled), and no second invocation is   *)
(* running beside it.                                                      *)
(***************************************************************************)
\* invocation s has started and not ended
Running(s) == runs[s].pc \notin {"idle", "returned", "threw"}

C35_OneSearchInFlight ==
    /\ \A s \in 1..MaxSearches : Running(s) => loading
    /\ Cardinality({s \in 1..MaxSearches : Running(s)}) <= 1

(***************************************************************************)
(* C37: after every successful search the best candidate and the rank-1    *)
(* entry of the top-K list are the same grid point with the same score,    *)
(* also when several candidates share the maximum score: the running best  *)
(* (replaced on a strictly greater score only) and the stable descending   *)
(* sort both keep the first of them.                                       *)
(***************************************************************************)
C37_BestIsRankOne ==
    /\ (TopWritten /\ Successes # {}) =>
          /\ topWeatherSpots[1].rank = 1
          /\ topWeatherSpots[1].p = bestPoint.p
          /\ topWeatherSpots[1].score = bestPoint.score
    /\ (pc = "returned" /\ best # NoBest) =>
          /\ best.p = topWeatherSpots[1].p
          /\ best.score = topWeatherSpots[1].score
          /\ bestLocation.p = topWeatherSpots[1].p

\* a search has returned whose best candidate is not the first sample and
\* shares the maximum score with later candidates of other batches
C37_Witness ==
    /\ pc = "returned"
    /\ best # NoBest
    /\ best.p > 1
    /\ 1 \in Successes
    /\ \E q \in Successes :
         /\ q > best.p + BATCH_SIZE
         /\ ExpectedScore(q) = best.score
    /\ topWeatherSpots[1].p = best.p

C39_SettledMeansNotSearching ==
    (\A k \in 1..Len(effects) : effects[k].at \notin {"timer", "fetch"}) =>
        ~isSearchingPlaces

(***************************************************************************)
(* C36: a search uses the weights, the wind mode and the radius that were  *)
(* current when it started.  Only the start of a search writes the values  *)
(* the invocation keeps, and it writes the current ones; the grid is       *)
(* generated for the radius kept and every candidate, of every batch, is   *)
(* scored with the weights and the mode kept; a drag, a toggle or a slider *)
(* move changes neither the radius of the grid nor any candidate.          *)
(***************************************************************************)
C36_SearchUsesStartValues ==
    /\ [](/\ metCalls[1] > 0 => maxRadius = closure.searchRadius
          /\ \A p \in DOMAIN batchResults :
               batchResults[p].status = "fulfilled" =>
                 batchResults[p].value.score = ExpectedScore(p)
          /\ pc = "sleep" =>
               \A i \in 1..Len(allWeatherSpots) :
                 allWeatherSpots[i].score = ExpectedScore(allWeatherSpots[i].p))
    /\ [][(closure' # closure \/ wLocal' # wLocal) =>
            /\ pc = "idle"
            /\ closure' = [darkMode |-> darkMode, searchRadius |-> searchRadius]
            /\ wLocal' = Weights(solWeight, tempWeight, windWeight)]_vars
    /\ [][(\/ darkMode' # darkMode
           \/ searchRadius' # searchRadius
           \/ weightVars' # weightVars) =>
            UNCHANGED <<closure, wLocal, maxRadius, batchResults,
                        allWeatherSpots, bestPoint, bestScore, sortedSpots>>]_vars

\* the weights, the mode and the radius have all been changed since the
\* search started, and a candidate of the second batch has been scored with
\* a score the changed weights and mode would not give
C36_Witness ==
    /\ pc = "batch"
    /\ batchStart = BATCH_SIZE
    /\ darkMode # closure.darkMode
    /\ searchRadius # closure.searchRadius
    /\ maxRadius = closure.searchRadius
    /\ Weights(solWeight, tempWeight, windWeight) # wLocal
    /\ \E p \in DOMAIN batchResults :
         /\ batchResults[p].status = "fulfilled"
         /\ batchResults[p].value.score = ExpectedScore(p)
         /\ batchResults[p].value.score #
              score(Totals(forecast24h(SeriesOf(p))),
                    Weights(solWeight, tempWeight, windWeight), darkMode)

====
